---- MODULE Spec2Model ----
(***************************************************************************)
(* Model of the resume-editing backend (backend/app): the chat             *)
(* confirmation state machine of main.py on top of the key/value object    *)
(* store, and the structured-output pipeline of llm.py.                    *)
(*                                                                         *)
(* Text is modelled character by character: a Python str is a sequence of  *)
(* one-character strings, so that stripping, lower-casing, regular         *)
(* expression search, fence removal, brace scanning and JSON parsing are   *)
(* computed the way the code computes them.                                *)
(***************************************************************************)
EXTENDS Naturals, Integers, Sequences, FiniteSets, TLC

\* ------------------------------------------------------------------ text

\* The character U+0060 cannot be written in a TLA+ string; "<bq>" stands for it.
Whitespace == {" ", "\n", "\t", "\r"}

Letters ==
    {"a","b","c","d","e","f","g","h","i","j","k","l","m","n","o","p","q","r","s","t",
     "u","v","w","x","y","z","A","B","C","D","E","F","G","H","I","J","K","L","M","N",
     "O","P","Q","R","<<",">>T","U","V","W","X","Y","Z"}

Digits == {"0","1","2","3","4","5","6","7","8","9"}

\* The characters the regular expression class \w matches (ASCII part).
WordChars == Letters \cup Digits \cup {"_"}

LowerMap ==
    [A |-> "a", B |-> "b", C |-> "c", D |-> "d", E |-> "e", F |-> "f", G |-> "g",
     H |-> "h", I |-> "i", J |-> "j", K |-> "k", L |-> "l", M |-> "m", N |-> "n",
     O |-> "o", P |-> "p", Q |-> "q", R |-> "r", S |-> "s", T |-> "t", U |-> "u",
     V |-> "v", W |-> "w", X |-> "x", Y |-> "y", Z |-> "z"]

\* str.lower()
Lower(s) == [i \in 1..Len(s) |-> IF s[i] \in DOMAIN LowerMap THEN LowerMap[s[i]] ELSE s[i]]

RECURSIVE LStrip(_)
LStrip(s) == IF s # << >> /\ Head(s) \in Whitespace THEN LStrip(Tail(s)) ELSE s

RECURSIVE RStrip(_)
RStrip(s) ==
    IF s # << >> /\ s[Len(s)] \in Whitespace THEN RStrip(SubSeq(s, 1, Len(s) - 1)) ELSE s

\* str.strip()
Strip(s) == RStrip(LStrip(s))

\* str.startswith(p), str.endswith(p)
StartsWith(s, p) == Len(s) >= Len(p) /\ SubSeq(s, 1, Len(p)) = p

EndsWith(s, p) == Len(s) >= Len(p) /\ SubSeq(s, Len(s) - Len(p) + 1, Len(s)) = p

\* The positions at which p occurs in s.
Occurrences(s, p) ==
    {i \in 1..(Len(s) + 1) : i + Len(p) - 1 <= Len(s) /\ SubSeq(s, i, i + Len(p) - 1) = p}

Min(S) == CHOOSE x \in S : \A y \in S : x <= y

\* str.find(p), 1-based; 0 where Python returns -1.
Find(s, p) == IF Occurrences(s, p) = {} THEN 0 ELSE Min(Occurrences(s, p))

\* p in s
Contains(s, p) == Occurrences(s, p) # {}

\* s[n:]
DropFirst(s, n) == SubSeq(s, n + 1, Len(s))

\* ---------------------------------------------------- intent classification

\* The chat messages users send in the model.
Messages == {<<"y","e","s">>, <<" ","N","o"," ">>, <<"l","o","o","k","s"," ","g","o","o","d">>, <<"b","u","l","l","e","t","s">>}

\* The chat messages of a turn taken on its own: those above, one that is both
\* affirmative and negative, and one that is both negative and a no-change.
TurnMessages == Messages \cup {<<"n","o",","," ","d","o"," ","i","t">>, <<"n","o"," ","c","h","a","n","g","e">>}

\* Editing requests: terse ones naming bullets, wording or skills, alone and
\* together, with capitals, digits and punctuation, and ones of more than three
\* word tokens or naming none of these.
NormalizeMessages ==
    {<<"b","u","l","l","e","t","s">>, <<" ","B","e","t","t","e","r"," ","B","u","l","l","e","t","s","!"," ">>, <<"2"," ","b","u","l","l","e","t","s",","," ","3"," ","s","k","i","l","l","s">>, <<"i","m","p","r","o","v","e"," ","s","k","i","l","l","s">>,
     <<"t","e","c","h"," ","s","t","a","c","k">>, <<"f","i","x"," ","m","y"," ","s","k","i","l","l","s"," ","s","e","c","t","i","o",
          "n">>, <<"b","u","l","l","e","t","s"," ","c","o","-","o","p"," ","x">>, <<"s","h","o","r","t","e","n"," ","t","h","e"," ","s","u","m","m","a","r","y">>}

\* user_message = req.message.strip()
ChatTexts == {Strip(m) : m \in TurnMessages \cup NormalizeMessages}

IsWordAt(s, i) == i >= 1 /\ i <= Len(s) /\ s[i] \in WordChars

\* The regular expression anchor \b between positions i-1 and i.
WordBoundary(s, i) == IsWordAt(s, i - 1) # IsWordAt(s, i)

\* re.compile(r"\b(a1|a2|...)\b", re.IGNORECASE).search(s) is not None
SearchWords(alts, s) ==
    \E a \in alts : \E i \in Occurrences(Lower(s), a) :
        WordBoundary(s, i) /\ WordBoundary(s, i + Len(a))

AFFIRMATIVE_RE ==
    {<<"y","e","s">>, <<"y","e","p">>, <<"y","e","a","h">>, <<"y","u","p">>, <<"s","u","r","e">>, <<"o","k">>, <<"o","k","a","y">>, <<"p","l","e","a","s","e"," ","d","o">>,
     <<"g","o"," ","a","h","e","a","d">>, <<"s","o","u","n","d","s"," ","g","o","o","d">>, <<"c","o","n","f","i","r","m">>, <<"a","p","p","l","y"," ","i","t">>, <<"d","o"," ","i","t">>, <<"l","o","o","k","s"," ","g","r","e","a","t">>}

NEGATIVE_RE ==
    {<<"n","o">>, <<"n","o","p","e">>, <<"n","a","h">>, <<"d","o","n","'","t">>, <<"d","o"," ","n","o","t">>, <<"s","t","o","p">>, <<"c","a","n","c","e","l">>, <<"n","e","v","e","r"," ","m","i","n","d">>,
     <<"n","e","v","e","r","m","i","n","d">>, <<"n","o","t"," ","n","o","w">>}

NO_CHANGE_RE ==
    {<<"n","o","t","h","i","n","g">>, <<"n","o"," ","c","h","a","n","g","e">>, <<"n","o"," ","c","h","a","n","g","e","s">>, <<"l","o","o","k","s"," ","g","o","o","d">>, <<"l","o","o","k","s"," ","f","i","n","e">>, <<"i","t","s"," ","f","i","n","e">>,
     <<"i","t","'","s"," ","f","i","n","e">>, <<"l","e","a","v","e"," ","i","t">>, <<"l","e","a","v","e"," ","a","s"," ","i","s">>, <<"a","s"," ","i","s">>, <<"w","e","r","e"," ","g","o","o","d">>, <<"w","e","'","r","e"," ","g","o","o","d">>,
     <<"a","l","l"," ","s","e","t">>, <<"j","u","s","t"," ","e","x","p","o","r","t">>, <<"r","e","a","d","y"," ","t","o"," ","e","x","p","o","r","t">>, <<"g","o","o","d"," ","a","s"," ","i","s">>}

\* The three searches are tabulated over the texts they are applied to in the
\* model, so that each search is evaluated once. (f @@ << >> is f, as an
\* enumerated function.)
NoChangeOf == [m \in ChatTexts |-> SearchWords(NO_CHANGE_RE, Lower(m))] @@ << >>

AffirmativeOf == [m \in ChatTexts |-> SearchWords(AFFIRMATIVE_RE, Lower(m))] @@ << >>

NegativeOf == [m \in ChatTexts |-> SearchWords(NEGATIVE_RE, Lower(m))] @@ << >>

is_no_change(message) == NoChangeOf[message]

is_affirmative(message) == AffirmativeOf[message]

is_negative(message) == NegativeOf[message]

\* len(re.findall(r"[a-zA-Z']+", s)): the number of maximal runs of letters and
\* apostrophes.
InToken(s, i) == i >= 1 /\ i <= Len(s) /\ s[i] \in (Letters \cup {"'"})

TokenCount(s) == Cardinality({i \in 1..Len(s) : InToken(s, i) /\ ~InToken(s, i - 1)})

BULLETS_INSTRUCTION ==
    <<"R","e","w","r","i","t","e"," ","a","l","l"," ","e","x","p","e","r","i","e","n","c",
      "e"," ","a","n","d"," ","p","r","o","j","e","c","t"," ","b","u","l","l","e","t","s",
      " ","t","o"," ","b","e"," ","c","o","n","c","i","s","e",","," ","p","r","o","f","e",
      "s","s","i","o","n","a","l",","," ","a","n","d"," ","A","T","S","-","f","r","i","e",
      "n","d","l","y"," ","w","h","i","l","e"," ","p","r","e","s","e","r","v","i","n","g",
      " ","f","a","c","t","s",".">>

POLISH_INSTRUCTION ==
    <<"P","o","l","i","s","h"," ","m","y"," ","r","e","s","u","m","e"," ","w","o","r","d",
      "i","n","g"," ","a","c","r","o","s","s"," ","a","l","l"," ","e","x","p","e","r","i",
      "e","n","c","e"," ","a","n","d"," ","p","r","o","j","e","c","t"," ","b","u","l","l",
      "e","t","s"," ","w","i","t","h","o","u","t"," ","a","d","d","i","n","g"," ","n","e",
      "w"," ","f","a","c","t","s",".">>

SKILLS_INSTRUCTION ==
    <<"I","m","p","r","o","v","e"," ","m","y"," ","r","e","s","u","m","e"," ","s","k","i",
      "l","l","s"," ","s","e","c","t","i","o","n"," ","w","o","r","d","i","n","g"," ","a",
      "n","d"," ","o","r","g","a","n","i","z","a","t","i","o","n"," ","w","h","i","l","e",
      " ","k","e","e","p","i","n","g"," ","a","l","l"," ","e","x","i","s","t","i","n","g",
      " ","f","a","c","t","s",".">>

NormalizedOf ==
    [user_message \in ChatTexts |->
    LET msg     == Strip(user_message)
        lowered == Lower(msg)
        short   == TokenCount(lowered) <= 3
        any(ks) == \E k \in ks : Contains(lowered, k)
    IN  IF msg = << >> THEN msg
        ELSE IF short /\ any({<<"b","u","l","l","e","t">>, <<"b","u","l","l","e","t","s">>}) THEN BULLETS_INSTRUCTION
        ELSE IF short /\ any({<<"p","r","o","f","e","s","s","i","o","n","a","l">>, <<"p","o","l","i","s","h">>, <<"i","m","p","r","o","v","e">>, <<"b","e","t","t","e","r">>})
            THEN POLISH_INSTRUCTION
        ELSE IF short /\ any({<<"s","k","i","l","l","s">>, <<"t","e","c","h"," ","s","t","a","c","k">>, <<"s","t","a","c","k">>}) THEN SKILLS_INSTRUCTION
        ELSE msg] @@ << >>

\* normalize_chat_request without the test of the number of tokens.
normalize_chat_request_any_length(user_message) ==
    LET lowered == Lower(Strip(user_message))
        any(ks) == \E k \in ks : Contains(lowered, k)
    IN  IF any({<<"b","u","l","l","e","t">>, <<"b","u","l","l","e","t","s">>}) THEN BULLETS_INSTRUCTION
        ELSE IF any({<<"p","r","o","f","e","s","s","i","o","n","a","l">>, <<"p","o","l","i","s","h">>, <<"i","m","p","r","o","v","e">>, <<"b","e","t","t","e","r">>})
            THEN POLISH_INSTRUCTION
        ELSE IF any({<<"s","k","i","l","l","s">>, <<"t","e","c","h"," ","s","t","a","c","k">>, <<"s","t","a","c","k">>}) THEN SKILLS_INSTRUCTION
        ELSE Strip(user_message)

normalize_chat_request(user_message) == NormalizedOf[user_message]

\* ------------------------------------------------------- JSON extraction

FENCE == <<"<bq>","<bq>","<bq>">>

\* DropJsonTag leaving the language tag in place.
DropJsonTag_keeping_tag(value) == value

\* if value.lower().startswith("json"): value = value[4:].strip()
DropJsonTag(value) ==
    IF StartsWith(Lower(value), <<"j","s","o","n">>) THEN Strip(DropFirst(value, 4)) ELSE value

\* value.split(FENCE)[1].strip(), where rest is value after its opening fence:
\* the text up to the next fence, or all of it.
SecondPart(rest, close) == Strip(IF close = 0 THEN rest ELSE SubSeq(rest, 1, close - 1))

Unfence(value) ==
    IF StartsWith(value, FENCE)
    THEN DropJsonTag(SecondPart(DropFirst(value, 3), Find(DropFirst(value, 3), FENCE)))
    ELSE value

strip_fences(text) == Unfence(Strip(text))

\* ScanStep counting the braces inside strings as well.
ScanStep_in_strings(st, ch, i) ==
    IF st.escaped THEN [st EXCEPT !.escaped = FALSE]
    ELSE IF ch = "\\" THEN [st EXCEPT !.escaped = TRUE]
    ELSE IF ch = "\"" THEN [st EXCEPT !.in_string = ~st.in_string]
    ELSE IF ch = "{" THEN [st EXCEPT !.depth = st.depth + 1]
    ELSE IF ch = "}"
        THEN IF st.depth - 1 = 0 THEN [st EXCEPT !.depth = 0, !.end = i]
             ELSE [st EXCEPT !.depth = st.depth - 1]
    ELSE st

\* One iteration of the scanning loop of extract_json_object on character ch at
\* index i; end becomes i at the "}" where the brace depth returns to zero (the break).
ScanStep(st, ch, i) ==
    IF st.escaped THEN [st EXCEPT !.escaped = FALSE]
    ELSE IF ch = "\\" THEN [st EXCEPT !.escaped = TRUE]
    ELSE IF ch = "\"" THEN [st EXCEPT !.in_string = ~st.in_string]
    ELSE IF st.in_string THEN st
    ELSE IF ch = "{" THEN [st EXCEPT !.depth = st.depth + 1]
    ELSE IF ch = "}"
        THEN IF st.depth - 1 = 0 THEN [st EXCEPT !.depth = 0, !.end = i]
             ELSE [st EXCEPT !.depth = st.depth - 1]
    ELSE st

\* The loop over s[lo..hi] in index order, stopping at the break. The range is
\* halved so that the evaluation nests only logarithmically deep.
RECURSIVE ScanRange(_, _, _, _)
ScanRange(s, lo, hi, st) ==
    IF lo > hi \/ st.end # 0 THEN st
    ELSE IF lo = hi THEN ScanStep(st, s[lo], lo)
    ELSE LET mid == (lo + hi) \div 2
         IN  ScanRange(s, mid + 1, hi, ScanRange(s, lo, mid, st))

\* for i, ch in enumerate(s[start:], start=start): the index of the closing "}",
\* or 0 where the code leaves end = -1.
ScanObject(s, start) ==
    ScanRange(s, start, Len(s),
              [depth |-> 0, in_string |-> FALSE, escaped |-> FALSE, end |-> 0]).end

\* extract_json_object: [ok, payload]; ok = FALSE stands for the ValueError.
ExtractFail == [ok |-> FALSE, payload |-> << >>]

\* return s[start : end + 1], unless the scan found no closing brace.
BalancedObject(s, start, end) ==
    IF end = 0 THEN ExtractFail ELSE [ok |-> TRUE, payload |-> SubSeq(s, start, end)]

\* s is the text without its fences, start = s.find("{").
OutermostObject(s, start) ==
    IF s = << >> THEN ExtractFail
    ELSE IF StartsWith(s, <<"{">>) /\ EndsWith(s, <<"}">>) THEN [ok |-> TRUE, payload |-> s]
    ELSE IF start = 0 THEN ExtractFail
    ELSE BalancedObject(s, start, ScanObject(s, start))

ObjectOf(s) == OutermostObject(s, Find(s, <<"{">>))

extract_json_object(text) == ObjectOf(strip_fences(text))

\* ------------------------------------------------------------ JSON values

\* A JSON value is a tagged record: t names its kind, v holds its content (the
\* characters of a string, the elements of an array, the members of an object as
\* a function from key to value).
JStr(s) == [t |-> "str", v |-> s]

JList(xs) == [t |-> "list", v |-> xs]

JObj(f) == [t |-> "obj", v |-> f]

JBool(b) == [t |-> "bool", v |-> b]

JNum(ds) == [t |-> "num", v |-> ds]

JNull == [t |-> "null", v |-> << >>]

NoMembers == << >>

\* The keys of JSON objects are kept as names; KeyText gives the characters of
\* each name as they stand in a JSON text.
KeyText ==
    [header |-> <<"h","e","a","d","e","r">>, education |-> <<"e","d","u","c","a","t","i","o","n">>, skills |-> <<"s","k","i","l","l","s">>,
     experience |-> <<"e","x","p","e","r","i","e","n","c","e">>, projects |-> <<"p","r","o","j","e","c","t","s">>,
     leadership |-> <<"l","e","a","d","e","r","s","h","i","p">>, awards |-> <<"a","w","a","r","d","s">>,
     name |-> <<"n","a","m","e">>, email |-> <<"e","m","a","i","l">>, phone |-> <<"p","h","o","n","e">>,
     linkedin |-> <<"l","i","n","k","e","d","i","n">>, github |-> <<"g","i","t","h","u","b">>, portfolio |-> <<"p","o","r","t","f","o","l","i","o">>,
     location |-> <<"l","o","c","a","t","i","o","n">>, school |-> <<"s","c","h","o","o","l">>, degree |-> <<"d","e","g","r","e","e">>,
     major |-> <<"m","a","j","o","r">>, grad |-> <<"g","r","a","d">>, gpa |-> <<"g","p","a">>,
     coursework |-> <<"c","o","u","r","s","e","w","o","r","k">>, company |-> <<"c","o","m","p","a","n","y">>, role |-> <<"r","o","l","e">>,
     start |-> <<"s","t","a","r","t">>, end |-> <<"e","n","d">>, bullets |-> <<"b","u","l","l","e","t","s">>, link |-> <<"l","i","n","k">>,
     stack |-> <<"s","t","a","c","k">>, org |-> <<"o","r","g">>, title |-> <<"t","i","t","l","e">>,
     languages |-> <<"l","a","n","g","u","a","g","e","s">>, frameworks |-> <<"f","r","a","m","e","w","o","r","k","s">>, tools |-> <<"t","o","o","l","s">>,
     concepts |-> <<"c","o","n","c","e","p","t","s">>, categories |-> <<"c","a","t","e","g","o","r","i","e","s">>,
     assistant_message |-> <<"a","s","s","i","s","t","a","n","t","_","m","e","s","s","a","g","e">>, edits_summary |-> <<"e","d","i","t","s","_","s","u","m","m","a","r","y">>,
     proposed_resume |-> <<"p","r","o","p","o","s","e","d","_","r","e","s","u","m","e">>,
     needs_confirmation |-> <<"n","e","e","d","s","_","c","o","n","f","i","r","m","a","t","i","o","n">>, a |-> <<"a">>]

KeyNamed ==
    [chars \in {KeyText[k] : k \in DOMAIN KeyText} |->
        CHOOSE k \in DOMAIN KeyText : KeyText[k] = chars] @@ << >>

\* The name of the key written as chars; the texts of the model use the keys of
\* KeyText only, any other key is kept under the one name "?".
KeyName(chars) == IF chars \in DOMAIN KeyNamed THEN KeyNamed[chars] ELSE "?"

\* dict[key] = value
PutKey(f, key, value) ==
    [x \in (DOMAIN f) \cup {key} |-> IF x = key THEN value ELSE f[x]]

\* The JSON text parser behind model_validate_json and json.loads, for texts made
\* of objects, arrays, strings, non-negative integers, true, false and null.
ParseFail == [ok |-> FALSE, val |-> JNull, pos |-> 0]

Parsed(v, p) == [ok |-> TRUE, val |-> v, pos |-> p]

RECURSIVE SkipWs(_, _)
SkipWs(s, i) == IF i <= Len(s) /\ s[i] \in Whitespace THEN SkipWs(s, i + 1) ELSE i

StringEscapes ==
    ("\"" :> "\"") @@ ("\\" :> "\\") @@ ("/" :> "/") @@ ("n" :> "\n") @@
    ("t" :> "\t") @@ ("r" :> "\r")

ScanFail == [ok |-> FALSE, chars |-> << >>, pos |-> 0]

\* From the character after an opening quote: the string's characters and the
\* position after its closing quote.
RECURSIVE ScanString(_, _, _)
ScanString(s, i, acc) ==
    IF i > Len(s) THEN ScanFail
    ELSE IF s[i] = "\"" THEN [ok |-> TRUE, chars |-> acc, pos |-> i + 1]
    ELSE IF s[i] = "\\"
        THEN IF i + 1 > Len(s) \/ s[i + 1] \notin DOMAIN StringEscapes THEN ScanFail
             ELSE ScanString(s, i + 2, Append(acc, StringEscapes[s[i + 1]]))
    ELSE IF s[i] \in {"\n", "\t", "\r"} THEN ScanFail
    ELSE ScanString(s, i + 1, Append(acc, s[i]))

RECURSIVE ScanDigits(_, _)
ScanDigits(s, i) == IF i <= Len(s) /\ s[i] \in Digits THEN ScanDigits(s, i + 1) ELSE i

LiteralAt(s, i, word) ==
    i + Len(word) - 1 <= Len(s) /\ SubSeq(s, i, i + Len(word) - 1) = word

RECURSIVE ParseValue(_, _)
RECURSIVE ParseMembers(_, _, _, _)
RECURSIVE ParseElements(_, _, _, _)

\* A string value whose characters were scanned.
StringValue(scanned) ==
    IF scanned.ok THEN Parsed(JStr(scanned.chars), scanned.pos) ELSE ParseFail

\* A number whose digits are s[i..e-1]; a leading zero is followed by no digit.
NumberValue(s, i, e) ==
    IF s[i] = "0" /\ e > i + 1 THEN ParseFail ELSE Parsed(JNum(SubSeq(s, i, e - 1)), e)

\* The value starting at the non-blank position i.
ValueAt(s, i) ==
    IF i > Len(s) THEN ParseFail
    ELSE IF s[i] = "{" THEN ParseMembers(s, SkipWs(s, i + 1), NoMembers, TRUE)
    ELSE IF s[i] = "[" THEN ParseElements(s, SkipWs(s, i + 1), << >>, TRUE)
    ELSE IF s[i] = "\"" THEN StringValue(ScanString(s, i + 1, << >>))
    ELSE IF LiteralAt(s, i, <<"t","r","u","e">>) THEN Parsed(JBool(TRUE), i + 4)
    ELSE IF LiteralAt(s, i, <<"f","a","l","s","e">>) THEN Parsed(JBool(FALSE), i + 5)
    ELSE IF LiteralAt(s, i, <<"n","u","l","l">>) THEN Parsed(JNull, i + 4)
    ELSE IF s[i] \in Digits THEN NumberValue(s, i, ScanDigits(s, i))
    ELSE ParseFail

ParseValue(s, i0) == ValueAt(s, SkipWs(s, i0))

\* After a member: next is the first non-blank position after its value.
MemberNext(s, more, next) ==
    IF next > Len(s) THEN ParseFail
    ELSE IF s[next] = "," THEN ParseMembers(s, SkipWs(s, next + 1), more, FALSE)
    ELSE IF s[next] = "}" THEN Parsed(JObj(more), next + 1)
    ELSE ParseFail

MemberValue(s, acc, key, value) ==
    IF ~value.ok THEN ParseFail
    ELSE MemberNext(s, PutKey(acc, KeyName(key), value.val), SkipWs(s, value.pos))

MemberColon(s, acc, key, colon) ==
    IF colon > Len(s) \/ s[colon] # ":" THEN ParseFail
    ELSE MemberValue(s, acc, key, ParseValue(s, colon + 1))

MemberKey(s, acc, key) ==
    IF ~key.ok THEN ParseFail ELSE MemberColon(s, acc, key.chars, SkipWs(s, key.pos))

\* i is the first non-blank position after "{" (first) or after a ",".
ParseMembers(s, i, acc, first) ==
    IF i > Len(s) THEN ParseFail
    ELSE IF first /\ s[i] = "}" THEN Parsed(JObj(acc), i + 1)
    ELSE IF s[i] # "\"" THEN ParseFail
    ELSE MemberKey(s, acc, ScanString(s, i + 1, << >>))

ElementNext(s, more, next) ==
    IF next > Len(s) THEN ParseFail
    ELSE IF s[next] = "," THEN ParseElements(s, SkipWs(s, next + 1), more, FALSE)
    ELSE IF s[next] = "]" THEN Parsed(JList(more), next + 1)
    ELSE ParseFail

ElementValue(s, acc, value) ==
    IF ~value.ok THEN ParseFail
    ELSE ElementNext(s, Append(acc, value.val), SkipWs(s, value.pos))

\* i is the first non-blank position after "[" (first) or after a ",".
ParseElements(s, i, acc, first) ==
    IF i > Len(s) THEN ParseFail
    ELSE IF first /\ s[i] = "]" THEN Parsed(JList(acc), i + 1)
    ELSE ElementValue(s, acc, ParseValue(s, i))

\* The whole text is one value, blanks around it allowed.
WholeText(s, r) ==
    IF r.ok /\ SkipWs(s, r.pos) = Len(s) + 1
    THEN [ok |-> TRUE, val |-> r.val]
    ELSE [ok |-> FALSE, val |-> JNull]

\* json.loads(text): [ok, val]; ok = FALSE stands for the decode error.
json_loads(s) == WholeText(s, ParseValue(s, 1))

\* ------------------------------------------------------ schema validation

\* A pydantic field type: str, bool, List[e], Dict[str, Any], or a model with its
\* fields; a field is [s: its type, req: whether it has no default, d: its default].
TStr == [k |-> "str"]

TBool == [k |-> "bool"]

TDict == [k |-> "dict"]

TList(e) == [k |-> "list", e |-> e]

TModel(fields) == [k |-> "model", f |-> fields]

Field(s, d) == [s |-> s, req |-> FALSE, d |-> d]

Required(s) == [s |-> s, req |-> TRUE, d |-> JNull]

StrField == Field(TStr, JStr(<< >>))

StrListField == Field(TList(TStr), JList(<< >>))

\* The strings pydantic's lax mode accepts for a bool field.
BoolTrueStrings == {<<"1">>, <<"o","n">>, <<"t">>, <<"t","r","u","e">>, <<"y">>, <<"y","e","s">>}

BoolFalseStrings == {<<"0">>, <<"o","f","f">>, <<"f">>, <<"f","a","l","s","e">>, <<"n">>, <<"n","o">>}

Invalid == [ok |-> FALSE, val |-> JNull]

Valid(v) == [ok |-> TRUE, val |-> v]

ValidateBool(j) ==
    IF j.t = "bool" THEN Valid(j)
    ELSE IF j.t = "str" /\ Lower(j.v) \in BoolTrueStrings THEN Valid(JBool(TRUE))
    ELSE IF j.t = "str" /\ Lower(j.v) \in BoolFalseStrings THEN Valid(JBool(FALSE))
    ELSE IF j.t = "num" /\ j.v = <<"1">> THEN Valid(JBool(TRUE))
    ELSE IF j.t = "num" /\ j.v = <<"0">> THEN Valid(JBool(FALSE))
    ELSE Invalid

\* The validated elements rs of a list.
ValidList(rs) ==
    IF \A i \in DOMAIN rs : rs[i].ok THEN Valid(JList([i \in DOMAIN rs |-> rs[i].val]))
    ELSE Invalid

\* The validated members rs of the fields given to a model: a required field must
\* be given, a field that is not given takes its default.
ValidModel(fields, rs) ==
    IF /\ \A key \in DOMAIN fields : fields[key].req => key \in DOMAIN rs
       /\ \A key \in DOMAIN rs : rs[key].ok
    THEN Valid(JObj([key \in DOMAIN fields |->
                        IF key \in DOMAIN rs THEN rs[key].val ELSE fields[key].d]))
    ELSE Invalid

\* Model.model_validate(j) followed by model_dump(): [ok, val], where ok = FALSE
\* stands for the ValidationError. Keys that are no field of a model are ignored.
RECURSIVE Validate(_, _)
Validate(sch, j) ==
    CASE sch.k = "str" -> IF j.t = "str" THEN Valid(j) ELSE Invalid
      [] sch.k = "bool" -> ValidateBool(j)
      [] sch.k = "dict" -> IF j.t = "obj" THEN Valid(j) ELSE Invalid
      [] sch.k = "list" ->
            IF j.t # "list" THEN Invalid
            ELSE ValidList([i \in 1..Len(j.v) |-> Validate(sch.e, j.v[i])])
      [] sch.k = "model" ->
            IF j.t # "obj" THEN Invalid
            ELSE ValidModel(sch.f, [key \in (DOMAIN sch.f) \cap (DOMAIN j.v) |->
                                        Validate(sch.f[key].s, j.v[key])])

Header ==
    TModel([name |-> StrField, email |-> StrField, phone |-> StrField,
            linkedin |-> StrField, github |-> StrField, portfolio |-> StrField,
            location |-> StrField])

EducationEntry ==
    TModel([school |-> StrField, degree |-> StrField, major |-> StrField,
            grad |-> StrField, gpa |-> StrField, coursework |-> StrListField])

RoleEntry ==
    TModel([company |-> StrField, location |-> StrField, role |-> StrField,
            start |-> StrField, end |-> StrField, bullets |-> StrListField])

ProjectEntry ==
    TModel([name |-> StrField, link |-> StrField, stack |-> StrListField,
            start |-> StrField, end |-> StrField, bullets |-> StrListField])

LeadershipEntry ==
    TModel([org |-> StrField, title |-> StrField, start |-> StrField,
            end |-> StrField, bullets |-> StrListField])

Skills ==
    TModel([languages |-> StrListField, frameworks |-> StrListField,
            tools |-> StrListField, concepts |-> StrListField])

\* default_factory=Header, default_factory=Skills: the model built from no input.
DefaultOf(model) == Validate(model, JObj(NoMembers)).val

Resume ==
    TModel([header |-> Field(Header, DefaultOf(Header)),
            education |-> Field(TList(EducationEntry), JList(<< >>)),
            skills |-> Field(Skills, DefaultOf(Skills)),
            experience |-> Field(TList(RoleEntry), JList(<< >>)),
            projects |-> Field(TList(ProjectEntry), JList(<< >>)),
            leadership |-> Field(TList(LeadershipEntry), JList(<< >>)),
            awards |-> StrListField])

\* LLMEditProposal with needs_confirmation defaulting to false.
LLMEditProposal_unconfirmed ==
    TModel([assistant_message |-> Required(TStr),
            edits_summary |-> StrListField,
            proposed_resume |-> Required(TDict),
            needs_confirmation |-> Field(TBool, JBool(FALSE))])

LLMEditProposal ==
    TModel([assistant_message |-> Required(TStr),
            edits_summary |-> StrListField,
            proposed_resume |-> Required(TDict),
            needs_confirmation |-> Field(TBool, JBool(TRUE))])

\* A validated LLMEditProposal as the record the callers read.
Proposal(message, summary, resume, confirm) ==
    [assistant_message |-> message, edits_summary |-> summary,
     proposed_resume |-> resume, needs_confirmation |-> confirm]

\* [ok, proposal]: ok = FALSE stands for the exception parse_proposal_response
\* raises (ValueError of the extraction, ValidationError of either validation).
ParseError == [ok |-> FALSE, proposal |-> Proposal(<< >>, << >>, JNull, FALSE)]

\* checked_proposal without the validation of proposed_resume.
checked_proposal_any_resume(fields, resume) ==
    [ok |-> TRUE,
     proposal |-> Proposal(fields.assistant_message.v,
                           [i \in DOMAIN fields.edits_summary.v |->
                               fields.edits_summary.v[i].v],
                           fields.proposed_resume,
                           fields.needs_confirmation.v)]

\* Resume.model_validate(proposal.proposed_resume); return proposal
checked_proposal(fields, resume) ==
    IF ~resume.ok THEN ParseError
    ELSE [ok |-> TRUE,
          proposal |-> Proposal(fields.assistant_message.v,
                                [i \in DOMAIN fields.edits_summary.v |->
                                    fields.edits_summary.v[i].v],
                                fields.proposed_resume,
                                fields.needs_confirmation.v)]

validated_proposal(proposal) ==
    IF ~proposal.ok THEN ParseError
    ELSE checked_proposal(proposal.val.v, Validate(Resume, proposal.val.v.proposed_resume))

\* LLMEditProposal.model_validate_json(payload)
model_validate_json(json) ==
    IF ~json.ok THEN ParseError ELSE validated_proposal(Validate(LLMEditProposal, json.val))

extracted_proposal(payload) ==
    IF ~payload.ok THEN ParseError ELSE model_validate_json(json_loads(payload.payload))

parse_proposal_response(raw_text) == extracted_proposal(extract_json_object(raw_text))

\* ------------------------------------------------- generative backend, llm.py

\* A backend call either returns text or fails (a timeout, a transport or API
\* error raised by generate_content).
Returned(text) == [ok |-> TRUE, text |-> text]

BackendFailure == [ok |-> FALSE, text |-> << >>]

HISTORY_WINDOW == 12

\* LastTurns keeping the whole history.
LastTurns_all(history) == history

\* history[-12:]
LastTurns(history) ==
    IF Len(history) <= HISTORY_WINDOW THEN history
    ELSE SubSeq(history, Len(history) - HISTORY_WINDOW + 1, Len(history))

RECURSIVE HistoryLines(_)
HistoryLines(turns) ==
    IF turns = << >> THEN << >>
    ELSE LET turn    == Head(turns)
             role    == Strip(Lower(turn.role))
             content == Strip(turn.content)
             line    == [role |-> IF role \in {<<"u","s","e","r">>, <<"a","s","s","i","s","t","a","n","t">>} THEN role ELSE <<"u","s","e","r">>,
                         content |-> content]
         IN  IF content = << >> THEN HistoryLines(Tail(turns))
             ELSE <<line>> \o HistoryLines(Tail(turns))

\* The prompt texts are kept as records of the parts formatted into them.
build_chat_prompt(resume_json, user_message, history) ==
    [kind |-> "chat", history_block |-> HistoryLines(LastTurns(history)),
     resume_json |-> resume_json, user_message |-> user_message]

build_job_tailor_prompt(resume_json, job_description) ==
    [kind |-> "tailor", resume_json |-> resume_json, job_description |-> job_description]

retry_prompt(previous_output, base_prompt) ==
    [kind |-> "repair", previous_output |-> previous_output, base_prompt |-> base_prompt]

\* One generate_content call as the backend saw it, with what came back.
Call(contents, temperature, result) ==
    [contents |-> contents, temperature |-> temperature, result |-> result]

CHAT_FALLBACK_MESSAGE ==
    <<"I"," ","r","a","n"," ","i","n","t","o"," ","a"," ","f","o","r","m","a","t","t","i",
      "n","g"," ","i","s","s","u","e"," ","g","e","n","e","r","a","t","i","n","g"," ","t",
      "h","e"," ","e","d","i","t"," ","p","l","a","n","."," ","T","r","y"," ","a","g","a",
      "i","n"," ","w","i","t","h"," ","a"," ","b","r","o","a","d"," ","c","o","m","m","a",
      "n","d"," ","l","i","k","e",":","\n","-"," ","\"","R","e","w","r","i","t","e"," ","a",
      "l","l"," ","m","y"," ","e","x","p","e","r","i","e","n","c","e"," ","a","n","d"," ",
      "p","r","o","j","e","c","t"," ","b","u","l","l","e","t","s"," ","t","o"," ","b","e",
      " ","m","o","r","e"," ","p","r","o","f","e","s","s","i","o","n","a","l",".","\"","\n",
      "-"," ","\"","T","i","g","h","t","e","n"," ","m","y"," ","b","u","l","l","e","t","s",
      " ","t","o"," ","o","n","e"," ","l","i","n","e"," ","e","a","c","h",","," ","k","e",
      "e","p","i","n","g"," ","t","h","e"," ","m","e","a","n","i","n","g"," ","t","h","e",
      " ","s","a","m","e",".","\"">>

TAILOR_FALLBACK_MESSAGE ==
    <<"I"," ","t","a","i","l","o","r","e","d"," ","y","o","u","r"," ","r","e","s","u","m",
      "e"," ","t","o"," ","t","h","i","s"," ","j","o","b"," ","d","e","s","c","r","i","p",
      "t","i","o","n"," ","a","n","d"," ","p","r","e","p","a","r","e","d"," ","s","a","f",
      "e"," ","e","d","i","t","s",","," ","b","u","t"," ","f","o","r","m","a","t","t","i",
      "n","g"," ","f","a","i","l","e","d"," ","t","h","i","s"," ","t","i","m","e","."," ",
      "P","l","e","a","s","e"," ","r","e","t","r","y"," ","o","n","c","e"," ","t","o"," ",
      "r","e","g","e","n","e","r","a","t","e",".">>

\* The outcome of a propose_* function: it raised, or it returned a proposal; calls
\* are the backend calls it made, in order.
PipelineRaised(calls) ==
    [raised |-> TRUE, proposal |-> Proposal(<< >>, << >>, JNull, FALSE), calls |-> calls]

PipelineReturned(proposal, calls) == [raised |-> FALSE, proposal |-> proposal, calls |-> calls]

\* chat_fallback asking for a confirmation of the unchanged resume.
chat_fallback_confirming(resume) == Proposal(CHAT_FALLBACK_MESSAGE, << >>, resume, TRUE)

chat_fallback(resume) == Proposal(CHAT_FALLBACK_MESSAGE, << >>, resume, FALSE)

tailor_fallback(resume) == Proposal(TAILOR_FALLBACK_MESSAGE, << >>, resume, FALSE)

TEXT_EMPTY == << >>

TEXT_UNBALANCED == <<"{","\"","a","\"",":"," ","\"","b","\"">>

TEXT_NOT_A_PROPOSAL == <<"{","\"","e","d","i","t","s","_","s","u","m","m","a","r","y","\"",":"," ","[","]",
          "}">>

TEXT_PROSE == <<"S","o","r","r","y",","," ","n","o",".">>

TEXT_BAD_RESUME ==
    <<"{","\"","a","s","s","i","s","t","a","n","t","_","m","e","s","s","a","g","e","\"",":",
      "\"","o","k","\"",",","\"","p","r","o","p","o","s","e","d","_","r","e","s","u","m",
      "e","\"",":","{","\"","a","w","a","r","d","s","\"",":","\"","x","\"","}","}">>

TEXT_WRONG_TYPE ==
    <<"{","\"","a","s","s","i","s","t","a","n","t","_","m","e","s","s","a","g","e","\"",":",
      "\"","o","k","\"",",","\"","e","d","i","t","s","_","s","u","m","m","a","r","y","\"",
      ":","\"","e","\"",",","\"","p","r","o","p","o","s","e","d","_","r","e","s","u","m",
      "e","\"",":","{","}","}">>

TEXT_STRING_FLAG ==
    <<"{","\"","a","s","s","i","s","t","a","n","t","_","m","e","s","s","a","g","e","\"",":",
      "\"","o","k","\"",",","\"","p","r","o","p","o","s","e","d","_","r","e","s","u","m",
      "e","\"",":","{","}",",","\"","n","e","e","d","s","_","c","o","n","f","i","r","m","a",
      "t","i","o","n","\"",":","\"","y","e","s","\"","}">>

TEXT_NO_SUMMARY == <<"{","\"","a","s","s","i","s","t","a","n","t","_","m","e","s","s","a","g","e","\"",
          ":","\"","o","k","\"",",","\"","p","r","o","p","o","s","e","d","_","r","e","s",
          "u","m","e","\"",":","{","}","}">>

FENCED_EDIT_OBJECT ==
    <<"{","\"","a","s","s","i","s","t","a","n","t","_","m","e","s","s","a","g","e","\"",":",
      "\"","o","k","\"",",","\"","e","d","i","t","s","_","s","u","m","m","a","r","y","\"",
      ":","[","\"","e","\"","]",",","\"","p","r","o","p","o","s","e","d","_","r","e","s",
      "u","m","e","\"",":","{","\"","h","e","a","d","e","r","\"",":","{","\"","n","a","m",
      "e","\"",":","\"","A","l","\"","}","}",",","\"","n","e","e","d","s","_","c","o","n",
      "f","i","r","m","a","t","i","o","n","\"",":","t","r","u","e","}">>

TEXT_FENCED_EDIT == <<"<bq>","<bq>","<bq>","j","s","o","n","\n">> \o FENCED_EDIT_OBJECT \o <<"\n","<bq>","<bq>","<bq>">>

FENCED_NOTE_OBJECT ==
    <<"{","\"","a","s","s","i","s","t","a","n","t","_","m","e","s","s","a","g","e","\"",":",
      "\"","h","m","?","\"",",","\"","p","r","o","p","o","s","e","d","_","r","e","s","u",
      "m","e","\"",":","{","\"","a","w","a","r","d","s","\"",":","[","\"","P","r","i","z",
      "e","\"","]","}",",","\"","n","e","e","d","s","_","c","o","n","f","i","r","m","a","t",
      "i","o","n","\"",":","f","a","l","s","e",",","\"","e","d","i","t","s","_","s","u","m",
      "m","a","r","y","\"",":","[","]","}">>

TEXT_FENCED_NOTE == <<"<bq>","<bq>","<bq>","J","S","O","N","\n">> \o FENCED_NOTE_OBJECT \o <<"\n","<bq>","<bq>","<bq>","\n">>

TEXT_CLARIFY ==
    <<"S","u","r","e",":"," ","{","\"","a","s","s","i","s","t","a","n","t","_","m","e","s",
      "s","a","g","e","\"",":","\"","h","m","?","\"",",","\"","e","d","i","t","s","_","s",
      "u","m","m","a","r","y","\"",":","[","]",",","\"","p","r","o","p","o","s","e","d","_",
      "r","e","s","u","m","e","\"",":","{","\"","a","w","a","r","d","s","\"",":","[","]",
      "}",",","\"","n","e","e","d","s","_","c","o","n","f","i","r","m","a","t","i","o","n",
      "\"",":","f","a","l","s","e","}">>

\* A proposal with a null for a name, and one with named skill groups.
TEXT_NULL_FIELD ==
    <<"{","\"","a","s","s","i","s","t","a","n","t","_","m","e","s","s","a","g","e","\"",":",
      "\"","o","k","\"",",","\"","e","d","i","t","s","_","s","u","m","m","a","r","y","\"",
      ":","[","\"","e","\"","]",",","\"","p","r","o","p","o","s","e","d","_","r","e","s",
      "u","m","e","\"",":","{","\"","h","e","a","d","e","r","\"",":","{","\"","n","a","m",
      "e","\"",":","n","u","l","l","}",",","\"","a","w","a","r","d","s","\"",":","[","\"",
      "P","r","i","z","e","\"","]","}",",","\"","n","e","e","d","s","_","c","o","n","f","i",
      "r","m","a","t","i","o","n","\"",":","t","r","u","e","}">>

TEXT_GROUPS ==
    <<"{","\"","a","s","s","i","s","t","a","n","t","_","m","e","s","s","a","g","e","\"",":",
      "\"","o","k","\"",",","\"","e","d","i","t","s","_","s","u","m","m","a","r","y","\"",
      ":","[","\"","e","\"","]",",","\"","p","r","o","p","o","s","e","d","_","r","e","s",
      "u","m","e","\"",":","{","\"","s","k","i","l","l","s","\"",":","{","\"","l","a","n",
      "g","u","a","g","e","s","\"",":","[","\"","G","o","\"","]",",","\"","c","a","t","e",
      "g","o","r","i","e","s","\"",":","{","\"","L","a","b","\"",":","[","\"","P","C","R",
      "\"","]","}","}","}",",","\"","n","e","e","d","s","_","c","o","n","f","i","r","m","a",
      "t","i","o","n","\"",":","t","r","u","e","}">>

CommitTexts == {TEXT_NULL_FIELD, TEXT_GROUPS}

\* Proposals that leave out needs_confirmation, edits_summary beside a flag that
\* is false, and edits_summary beside a flag that is true.
TEXT_NO_FLAG ==
    <<"{","\"","a","s","s","i","s","t","a","n","t","_","m","e","s","s","a","g","e","\"",":",
      "\"","o","k","\"",",","\"","e","d","i","t","s","_","s","u","m","m","a","r","y","\"",
      ":","[","\"","e","\"","]",",","\"","p","r","o","p","o","s","e","d","_","r","e","s",
      "u","m","e","\"",":","{","\"","h","e","a","d","e","r","\"",":","{","\"","n","a","m",
      "e","\"",":","\"","A","l","\"","}","}","}">>

TEXT_NOTE_NO_EDITS ==
    <<"{","\"","a","s","s","i","s","t","a","n","t","_","m","e","s","s","a","g","e","\"",":",
      "\"","h","m","?","\"",",","\"","p","r","o","p","o","s","e","d","_","r","e","s","u",
      "m","e","\"",":","{","\"","a","w","a","r","d","s","\"",":","[","\"","P","r","i","z",
      "e","\"","]","}",",","\"","n","e","e","d","s","_","c","o","n","f","i","r","m","a","t",
      "i","o","n","\"",":","f","a","l","s","e","}">>

TEXT_EDIT_NO_EDITS ==
    <<"{","\"","a","s","s","i","s","t","a","n","t","_","m","e","s","s","a","g","e","\"",":",
      "\"","o","k","\"",",","\"","p","r","o","p","o","s","e","d","_","r","e","s","u","m",
      "e","\"",":","{","\"","h","e","a","d","e","r","\"",":","{","\"","n","a","m","e","\"",
      ":","\"","A","l","\"","}","}",",","\"","n","e","e","d","s","_","c","o","n","f","i",
      "r","m","a","t","i","o","n","\"",":","t","r","u","e","}">>

DefaultTexts == {TEXT_NO_FLAG, TEXT_NOTE_NO_EDITS, TEXT_EDIT_NO_EDITS}

\* The texts the backend returns in the model.
BackendTexts == {TEXT_UNBALANCED, TEXT_FENCED_EDIT, TEXT_CLARIFY}

\* The texts of the model: these, and an empty, a brace-free, a schema-invalid
\* one, one whose proposed_resume is no Resume, one with a string for a list,
\* one with a string for a bool, one without the optional fields, and a second
\* fenced one.
AllTexts ==
    BackendTexts
    \cup {TEXT_EMPTY, TEXT_PROSE, TEXT_NOT_A_PROPOSAL, TEXT_BAD_RESUME, TEXT_NO_SUMMARY,
          TEXT_FENCED_NOTE, TEXT_WRONG_TYPE, TEXT_STRING_FLAG}

\* parse_proposal_response tabulated over these texts.
ParsedResponse ==
    [text \in AllTexts \cup CommitTexts \cup DefaultTexts |-> parse_proposal_response(text)] @@ << >>

\* ------------------------------------------------------- parse_resume_text

\* lines[0] if lines else "", lines being the stripped non-blank lines of raw.
FirstLine(raw) ==
    LET text == LStrip(raw)
    IN  RStrip(IF Find(text, <<"\n">>) = 0 THEN text
               ELSE SubSeq(text, 1, Find(text, <<"\n">>) - 1))

\* seed_resume, email and phone being what EMAIL_RE and PHONE_RE found in the text.
seed_resume(name, email, phone) ==
    JObj([header |-> JObj([name |-> JStr(name), email |-> JStr(email),
                           phone |-> JStr(phone), linkedin |-> JStr(<< >>),
                           github |-> JStr(<< >>), portfolio |-> JStr(<< >>),
                           location |-> JStr(<< >>)]),
          education |-> JList(<< >>),
          skills |-> JObj([languages |-> JList(<< >>), frameworks |-> JList(<< >>),
                           tools |-> JList(<< >>), concepts |-> JList(<< >>),
                           categories |-> JObj(NoMembers)]),
          experience |-> JList(<< >>),
          projects |-> JList(<< >>),
          leadership |-> JList(<< >>),
          awards |-> JList(<< >>)])

\* payload = _extract_json_object(resp.text or ""); data = json.loads(payload)
loaded_payload(payload) ==
    IF ~payload.ok THEN [ok |-> FALSE, val |-> JNull] ELSE json_loads(payload.payload)

\* parse_resume_with_llm, has_key telling whether GEMINI_API_KEY is set: [ok, val],
\* val the object given to Resume.model_validate;
\* ok = FALSE stands for any exception (no key, a failed call, no JSON object, a
\* ValidationError).
parse_resume_with_llm(has_key, result) ==
    IF ~has_key \/ ~result.ok THEN [ok |-> FALSE, val |-> JNull]
    ELSE LET data == loaded_payload(extract_json_object(result.text))
         IN  IF data.ok /\ Validate(Resume, data.val).ok THEN data
             ELSE [ok |-> FALSE, val |-> JNull]

\* The object parse_resume_text returns validated: the backend's, or the seed when
\* parse_resume_with_llm raised.
validated_object(seed, parsed) == IF parsed.ok THEN parsed.val ELSE seed

parse_resume_text(raw, email, phone, has_key, result) ==
    validated_object(seed_resume(FirstLine(raw), email, phone),
                     parse_resume_with_llm(has_key, result))

\* What the backend returns for a parse: an object with named skill groups, one
\* with a null, one with a few fields, and a text without an object.
PARSE_GROUPS == <<"{","\"","h","e","a","d","e","r","\"",":","{","\"","n","a","m","e","\"",":","\"",
          "A","l"," ","R","o","e","\"","}",",","\"","s","k","i","l","l","s","\"",":","{",
          "\"","t","o","o","l","s","\"",":","[","\"","g","i","t","\"","]",",","\"","c","a",
          "t","e","g","o","r","i","e","s","\"",":","{","\"","L","a","b","\"",":","[","\"",
          "P","C","R","\"","]","}","}","}">>

PARSE_NULL == <<"H","e","r","e",":"," ","{","\"","h","e","a","d","e","r","\"",":","{","\"","n",
          "a","m","e","\"",":","n","u","l","l","}",",","\"","a","w","a","r","d","s","\"",
          ":","[","\"","P","r","i","z","e","\"","]","}">>

PARSE_PARTIAL == <<"{","\"","e","d","u","c","a","t","i","o","n","\"",":","[","{","\"","s","c","h",
          "o","o","l","\"",":","\"","M","I","T","\"","}","]",",","\"","a","w","a","r","d",
          "s","\"",":","[","\"","P","r","i","z","e","\"","]","}">>

CommitParseResults ==
    {Returned(PARSE_GROUPS), Returned(PARSE_NULL), Returned(PARSE_PARTIAL),
     Returned(TEXT_PROSE), BackendFailure}

CommitRawTexts == {<<"A","l"," ","R","o","e","\n","a","l","@","x",".","i","o">>, <<"\n"," "," ","B","o"," ","L","i"," ","\n">>}

FoundEmails == {<< >>, <<"a","l","@","x",".","i","o">>}

CommitOutputs ==
    {parse_resume_text(raw, email, << >>, TRUE, result) :
        raw \in CommitRawTexts, email \in FoundEmails, result \in CommitParseResults}

\* The resume documents of the model: what parse_resume_text validates, what the
\* backend proposes, and their validated forms.
ParseOutputs ==
    {json_loads(<<"{","\"","h","e","a","d","e","r","\"",":","{","\"","n","a","m","e","\"",":","\"",
          "A","l"," ","R","o","e","\"",",","\"","e","m","a","i","l","\"",":","\"","a","l",
          "@","x",".","i","o","\"","}",",","\"","a","w","a","r","d","s","\"",":","[","\"",
          "P","r","i","z","e","\"","]","}">>).val}

ProposedResumes ==
    {ParsedResponse[text].proposal.proposed_resume :
        text \in {t \in AllTexts \cup CommitTexts \cup DefaultTexts : ParsedResponse[t].ok}}

ResumeDocs ==
    LET given == ParseOutputs \cup CommitOutputs \cup ProposedResumes
    IN  given \cup {Validate(Resume, data).val : data \in given}

\* Resume.model_validate tabulated over these documents.
ValidatedResume == [data \in ResumeDocs |-> Validate(Resume, data)] @@ << >>

\* Resume.model_validate(data), with model_dump() of the result
model_validate(data) == ValidatedResume[data]

\* RepairAttempt without the except of the second parse: a repair text that does
\* not parse raises.
RepairAttempt_raising(calls, second, try2, fallback) ==
    IF ~second.ok THEN PipelineRaised(calls)
    ELSE IF try2.ok THEN PipelineReturned(try2.proposal, calls)
    ELSE PipelineRaised(calls)

\* Attempt 2 (strict repair): try2 is the parse of what the repair call returned.
RepairAttempt(calls, second, try2, fallback) ==
    IF ~second.ok THEN PipelineRaised(calls)
    ELSE IF try2.ok THEN PipelineReturned(try2.proposal, calls)
    ELSE PipelineReturned(fallback, calls)

\* FirstAttempt without the repair call: a first text that does not parse goes
\* straight to the fallback.
FirstAttempt_without_repair(base_prompt, fallback, first, second, try1) ==
    IF try1.ok THEN PipelineReturned(try1.proposal, <<Call(base_prompt, "0.2", first)>>)
    ELSE PipelineReturned(fallback, <<Call(base_prompt, "0.2", first)>>)

\* Attempt 1: try1 is the parse of text1, the text the first call returned.
FirstAttempt(base_prompt, fallback, first, second, try1) ==
    IF try1.ok THEN PipelineReturned(try1.proposal, <<Call(base_prompt, "0.2", first)>>)
    ELSE RepairAttempt(<<Call(base_prompt, "0.2", first),
                         Call(retry_prompt(first.text, base_prompt), "0.0", second)>>,
                       second, ParsedResponse[second.text], fallback)

\* The two attempts shared by propose_chat_edits and propose_job_tailored_edits:
\* first and second are what the backend answers to the first and to the repair
\* call; the second is consulted only when the repair call is made.
TwoAttempts(base_prompt, fallback, first, second) ==
    IF ~first.ok THEN PipelineRaised(<<Call(base_prompt, "0.2", first)>>)
    ELSE FirstAttempt(base_prompt, fallback, first, second, ParsedResponse[first.text])

\* resume is the model_dump() of the Resume passed in.
propose_chat_edits(api_key, resume, user_message, history, first, second) ==
    IF ~api_key THEN PipelineRaised(<< >>)
    ELSE TwoAttempts(build_chat_prompt(resume, user_message, history),
                     chat_fallback(resume), first, second)

propose_job_tailored_edits(api_key, resume, job_description, first, second) ==
    IF ~api_key THEN PipelineRaised(<< >>)
    ELSE TwoAttempts(build_job_tailor_prompt(resume, job_description),
                     tailor_fallback(resume), first, second)

\* ---------------------------------------------------- object store, storage.py

\* Keys are kept as the tuple of their path segments.
upload_text_key(doc_id) == <<"extracted", doc_id, "resume.txt">>

parsed_key(doc_id) == <<"parsed", doc_id, "resume.json">>

draft_key(doc_id) == <<"draft", doc_id, "resume.json">>

history_key(doc_id) == <<"chat", doc_id, "history.json">>

\* pending_key naming one record for all documents.
pending_key_shared(doc_id) == <<"draft", "d1", "pending.json">>

pending_key(doc_id) == <<"draft", doc_id, "pending.json">>

\* put_object(key, data, content_type): overwrite per key. The store holds the
\* value whose serialisation the code writes; every reader parses it back.
put_object(store, key, data) == PutKey(store, key, data)

\* get_object_bytes(key) raises for an absent key.
has_object(store, key) == key \in DOMAIN store

get_object_bytes(store, key) == store[key]

\* Python's None
None == [none |-> TRUE]

\* _load_optional_json(key): None for an absent key.
load_optional_json(store, key) ==
    IF has_object(store, key) THEN get_object_bytes(store, key) ELSE None

\* _load_optional_json(history_key) or []
load_history(store, doc_id) ==
    IF has_object(store, history_key(doc_id))
    THEN get_object_bytes(store, history_key(doc_id))
    ELSE << >>

\* pending_is_active taking every stored record for a live one.
pending_is_active_any(pending) == pending # None

\* bool(pending and pending.get("status") == "pending")
pending_is_active(pending) == pending # None /\ pending.status = "pending"

\* source_key reading the parsed resume whenever there is one.
source_key_parsed_first(store, doc_id) ==
    IF has_object(store, parsed_key(doc_id)) THEN parsed_key(doc_id) ELSE draft_key(doc_id)

\* The try/except choosing the draft over the parsed resume.
source_key(store, doc_id) ==
    IF has_object(store, draft_key(doc_id)) THEN draft_key(doc_id) ELSE parsed_key(doc_id)

\* ------------------------------------------------------ chat_resume, main.py

APPLIED_MESSAGE ==
    <<"G","r","e","a","t"," ","-"," ","I"," ","a","p","p","l","i","e","d"," ","t","h","e",
      " ","e","d","i","t","s"," ","a","n","d"," ","u","p","d","a","t","e","d"," ","y","o",
      "u","r"," ","r","e","s","u","m","e","."," ","W","a","n","t"," ","t","o"," ","e","x",
      "p","o","r","t"," ","i","t"," ","n","o","w","?">>

REJECTED_MESSAGE == <<"N","o"," ","p","r","o","b","l","e","m"," ","-"," ","t","e","l","l"," ","m","e",
          " ","w","h","a","t"," ","y","o","u","'","d"," ","l","i","k","e"," ","t","o"," ",
          "c","h","a","n","g","e"," ","n","e","x","t",".">>

NO_CHANGE_MESSAGE == <<"G","o","t"," ","i","t"," ","-"," ","n","o"," ","c","h","a","n","g","e","s"," ",
          "n","e","e","d","e","d","."," ","W","a","n","t"," ","t","o"," ","e","x","p","o",
          "r","t"," ","i","t"," ","n","o","w","?">>

RETRY_GUIDANCE_MESSAGE ==
    <<"I"," ","h","i","t"," ","a"," ","t","e","m","p","o","r","a","r","y"," ","f","o","r",
      "m","a","t","t","i","n","g"," ","i","s","s","u","e"," ","w","h","i","l","e"," ","g",
      "e","n","e","r","a","t","i","n","g"," ","y","o","u","r"," ","e","d","i","t","s",".",
      " ","T","r","y"," ","a","g","a","i","n"," ","w","i","t","h",":","\n","-"," ","\"","R",
      "e","w","r","i","t","e"," ","a","l","l"," ","m","y"," ","e","x","p","e","r","i","e",
      "n","c","e"," ","a","n","d"," ","p","r","o","j","e","c","t"," ","b","u","l","l","e",
      "t","s"," ","t","o"," ","b","e"," ","m","o","r","e"," ","p","r","o","f","e","s","s",
      "i","o","n","a","l",".","\"","\n","-"," ","\"","S","h","o","r","t","e","n"," ","m",
      "y"," ","b","u","l","l","e","t","s"," ","t","o"," ","o","n","e"," ","l","i","n","e",
      " ","e","a","c","h",".","\"","\n","-"," ","\"","W","h","a","t"," ","s","h","o","u",
      "l","d"," ","I"," ","e","d","i","t","?","\"">>

Turn(role, content) == [role |-> role, content |-> content]

\* history.extend([{"role": "user", ...}, {"role": "assistant", ...}])
extend_history(history, user_message, assistant_message) ==
    history \o <<Turn(<<"u","s","e","r">>, user_message), Turn(<<"a","s","s","i","s","t","a","n","t">>, assistant_message)>>

\* save_turn storing the new turn alone.
save_turn_alone(store, doc_id, history, user_message, assistant_message) ==
    put_object(store, history_key(doc_id),
               extend_history(<< >>, user_message, assistant_message))

\* history.extend([...]); _save_json(history_key, history)
save_turn(store, doc_id, history, user_message, assistant_message) ==
    put_object(store, history_key(doc_id),
               extend_history(history, user_message, assistant_message))

\* What a request handler leaves behind: the store, the response (or the fact that
\* it raised), and the pipeline it invoked, if any, with the backend calls made.
NotInvoked == [invoked |-> FALSE, calls |-> << >>]

Invoked(name, resume, message, outcome) ==
    [invoked |-> TRUE, name |-> name, resume |-> resume, message |-> message,
     raised |-> outcome.raised, proposal |-> outcome.proposal, calls |-> outcome.calls]

Handled(store, resp, pipe) == [store |-> store, response |-> resp, pipeline |-> pipe]

Raised == [raised |-> TRUE]

\* chat_apply without the write of the draft.
chat_apply_without_commit(store, doc_id, user_message, history, pending, updated) ==
    IF ~updated.ok THEN Handled(store, Raised, NotInvoked)
    ELSE Handled(save_turn(put_object(store, pending_key(doc_id),
                                      [pending EXCEPT !.status = "applied"]),
                           doc_id, history, user_message, APPLIED_MESSAGE),
                 [doc_id |-> doc_id, draft_key |-> draft_key(doc_id),
                  resume |-> updated.val, assistant_message |-> APPLIED_MESSAGE,
                  edits_summary |-> pending.edits_summary,
                  needs_confirmation |-> FALSE, status |-> "applied"],
                 NotInvoked)

\* chat_apply storing the resume of the pending edit as it was proposed.
chat_apply_as_proposed(store, doc_id, user_message, history, pending, updated) ==
    IF ~updated.ok THEN Handled(store, Raised, NotInvoked)
    ELSE Handled(save_turn(put_object(put_object(store, draft_key(doc_id), pending.resume),
                                      pending_key(doc_id),
                                      [pending EXCEPT !.status = "applied"]),
                           doc_id, history, user_message, APPLIED_MESSAGE),
                 [doc_id |-> doc_id, draft_key |-> draft_key(doc_id),
                  resume |-> updated.val, assistant_message |-> APPLIED_MESSAGE,
                  edits_summary |-> pending.edits_summary,
                  needs_confirmation |-> FALSE, status |-> "applied"],
                 NotInvoked)

\* Rule 1: the pending edit is affirmed; updated = Resume.model_validate(pending["resume"]).
chat_apply(store, doc_id, user_message, history, pending, updated) ==
    IF ~updated.ok THEN Handled(store, Raised, NotInvoked)
    ELSE Handled(save_turn(put_object(put_object(store, draft_key(doc_id), updated.val),
                                      pending_key(doc_id),
                                      [pending EXCEPT !.status = "applied"]),
                           doc_id, history, user_message, APPLIED_MESSAGE),
                 [doc_id |-> doc_id, draft_key |-> draft_key(doc_id),
                  resume |-> updated.val, assistant_message |-> APPLIED_MESSAGE,
                  edits_summary |-> pending.edits_summary,
                  needs_confirmation |-> FALSE, status |-> "applied"],
                 NotInvoked)

\* chat_reject without the write of the pending edit.
chat_reject_without_save(store, doc_id, user_message, history, pending, resume) ==
    Handled(save_turn(store, doc_id, history, user_message, REJECTED_MESSAGE),
            [doc_id |-> doc_id, source_key |-> source_key(store, doc_id),
             resume |-> resume, assistant_message |-> REJECTED_MESSAGE,
             needs_confirmation |-> FALSE, status |-> "rejected"],
            NotInvoked)

\* Rule 2: the pending edit is declined.
chat_reject(store, doc_id, user_message, history, pending, resume) ==
    Handled(save_turn(put_object(store, pending_key(doc_id),
                                 [pending EXCEPT !.status = "rejected"]),
                      doc_id, history, user_message, REJECTED_MESSAGE),
            [doc_id |-> doc_id, source_key |-> source_key(store, doc_id),
             resume |-> resume, assistant_message |-> REJECTED_MESSAGE,
             needs_confirmation |-> FALSE, status |-> "rejected"],
            NotInvoked)

\* chat_no_change closing the stored edit, whatever its status.
chat_no_change_closing(store, doc_id, user_message, history, resume) ==
    Handled(save_turn(IF has_object(store, pending_key(doc_id))
                      THEN put_object(store, pending_key(doc_id),
                                      [get_object_bytes(store, pending_key(doc_id))
                                          EXCEPT !.status = "rejected"])
                      ELSE store,
                      doc_id, history, user_message, NO_CHANGE_MESSAGE),
            [doc_id |-> doc_id, source_key |-> source_key(store, doc_id),
             resume |-> resume, assistant_message |-> NO_CHANGE_MESSAGE,
             edits_summary |-> << >>, needs_confirmation |-> FALSE, status |-> "info"],
            NotInvoked)

\* Rule 3: the user wants no change and nothing is pending.
chat_no_change(store, doc_id, user_message, history, resume) ==
    Handled(save_turn(store, doc_id, history, user_message, NO_CHANGE_MESSAGE),
            [doc_id |-> doc_id, source_key |-> source_key(store, doc_id),
             resume |-> resume, assistant_message |-> NO_CHANGE_MESSAGE,
             edits_summary |-> << >>, needs_confirmation |-> FALSE, status |-> "info"],
            NotInvoked)

\* Rule 4, the except branch: propose_chat_edits raised.
chat_proposal_failed(store, doc_id, user_message, history, resume, pipe) ==
    Handled(save_turn(store, doc_id, history, user_message, RETRY_GUIDANCE_MESSAGE),
            [doc_id |-> doc_id, source_key |-> source_key(store, doc_id),
             assistant_message |-> RETRY_GUIDANCE_MESSAGE, edits_summary |-> << >>,
             proposed_resume |-> resume, needs_confirmation |-> FALSE, status |-> "info"],
            pipe)

\* _save_json(pending_key, {"status": "pending", ...})
save_pending(store, doc_id, proposal) ==
    put_object(store, pending_key(doc_id),
               [status |-> "pending", resume |-> proposal.proposed_resume,
                edits_summary |-> proposal.edits_summary])

\* store_pending storing every proposal.
store_pending_always(store, doc_id, proposal) == save_pending(store, doc_id, proposal)

\* store_pending keeping the record that is already stored.
store_pending_keeping(store, doc_id, proposal) ==
    IF proposal.needs_confirmation /\ ~has_object(store, pending_key(doc_id))
    THEN save_pending(store, doc_id, proposal)
    ELSE store

\* if proposal.needs_confirmation: _save_json(pending_key, {...})
store_pending(store, doc_id, proposal) ==
    IF proposal.needs_confirmation THEN save_pending(store, doc_id, proposal) ELSE store

\* chat_proposal writing the proposed resume as the draft at once.
chat_proposal_committing(store, doc_id, user_message, history, proposal, pipe) ==
    Handled(put_object(store_pending(save_turn(store, doc_id, history, user_message,
                                               proposal.assistant_message),
                                     doc_id, proposal),
                       draft_key(doc_id), Validate(Resume, proposal.proposed_resume).val),
            [doc_id |-> doc_id, source_key |-> source_key(store, doc_id),
             assistant_message |-> proposal.assistant_message,
             edits_summary |-> proposal.edits_summary,
             proposed_resume |-> proposal.proposed_resume,
             needs_confirmation |-> proposal.needs_confirmation,
             status |-> IF proposal.needs_confirmation THEN "pending" ELSE "info"],
            pipe)

\* Rule 4, the success path: the proposal is recorded and returned.
chat_proposal(store, doc_id, user_message, history, proposal, pipe) ==
    Handled(store_pending(save_turn(store, doc_id, history, user_message,
                                    proposal.assistant_message),
                          doc_id, proposal),
            [doc_id |-> doc_id, source_key |-> source_key(store, doc_id),
             assistant_message |-> proposal.assistant_message,
             edits_summary |-> proposal.edits_summary,
             proposed_resume |-> proposal.proposed_resume,
             needs_confirmation |-> proposal.needs_confirmation,
             status |-> IF proposal.needs_confirmation THEN "pending" ELSE "info"],
            pipe)

\* chat_outcome without the except branch: the exception leaves the handler.
chat_outcome_unguarded(store, doc_id, user_message, history, resume, pipe) ==
    IF pipe.raised THEN Handled(store, Raised, pipe)
    ELSE chat_proposal(store, doc_id, user_message, history, pipe.proposal, pipe)

\* The try/except around propose_chat_edits.
chat_outcome(store, doc_id, user_message, history, resume, pipe) ==
    IF pipe.raised
    THEN chat_proposal_failed(store, doc_id, user_message, history, resume, pipe)
    ELSE chat_proposal(store, doc_id, user_message, history, pipe.proposal, pipe)

\* Rule 4: a new editing request goes through the pipeline.
chat_new_request(store, doc_id, user_message, history, resume, api_key, first, second) ==
    chat_outcome(store, doc_id, user_message, history, resume,
                 Invoked("propose_chat_edits", resume, normalize_chat_request(user_message),
                         propose_chat_edits(api_key, resume,
                                            normalize_chat_request(user_message),
                                            history, first, second)))

\* chat_rules asking whether the message declines before asking whether it affirms.
chat_rules_reject_first(store, doc_id, user_message, history, pending, loaded, api_key, first, second) ==
    IF ~loaded.ok THEN Handled(store, Raised, NotInvoked)
    ELSE IF pending_is_active(pending) /\ is_negative(user_message)
        THEN chat_reject(store, doc_id, user_message, history, pending, loaded.val)
    ELSE IF pending_is_active(pending) /\ is_affirmative(user_message)
        THEN chat_apply(store, doc_id, user_message, history, pending,
                        model_validate(pending.resume))
    ELSE IF is_no_change(user_message) /\ ~pending_is_active(pending)
        THEN chat_no_change(store, doc_id, user_message, history, loaded.val)
    ELSE chat_new_request(store, doc_id, user_message, history, loaded.val, api_key,
                          first, second)

\* chat_rules taking a no-change message as such while an edit is pending.
chat_rules_no_change_while_pending(store, doc_id, user_message, history, pending, loaded, api_key, first, second) ==
    IF ~loaded.ok THEN Handled(store, Raised, NotInvoked)
    ELSE IF pending_is_active(pending) /\ is_affirmative(user_message)
        THEN chat_apply(store, doc_id, user_message, history, pending,
                        model_validate(pending.resume))
    ELSE IF pending_is_active(pending) /\ is_negative(user_message)
        THEN chat_reject(store, doc_id, user_message, history, pending, loaded.val)
    ELSE IF is_no_change(user_message)
        THEN chat_no_change(store, doc_id, user_message, history, loaded.val)
    ELSE chat_new_request(store, doc_id, user_message, history, loaded.val, api_key,
                          first, second)

\* The four rules, in the order of the code; loaded = Resume.model_validate(parsed_json).
chat_rules(store, doc_id, user_message, history, pending, loaded, api_key, first, second) ==
    IF ~loaded.ok THEN Handled(store, Raised, NotInvoked)
    ELSE IF pending_is_active(pending) /\ is_affirmative(user_message)
        THEN chat_apply(store, doc_id, user_message, history, pending,
                        model_validate(pending.resume))
    ELSE IF pending_is_active(pending) /\ is_negative(user_message)
        THEN chat_reject(store, doc_id, user_message, history, pending, loaded.val)
    ELSE IF is_no_change(user_message) /\ ~pending_is_active(pending)
        THEN chat_no_change(store, doc_id, user_message, history, loaded.val)
    ELSE chat_new_request(store, doc_id, user_message, history, loaded.val, api_key,
                          first, second)

\* POST /api/resume/{doc_id}/chat
chat_resume(store, doc_id, message, api_key, first, second) ==
    IF ~has_object(store, source_key(store, doc_id)) THEN Handled(store, Raised, NotInvoked)
    ELSE chat_rules(store, doc_id, Strip(message), load_history(store, doc_id),
                    load_optional_json(store, pending_key(doc_id)),
                    model_validate(get_object_bytes(store, source_key(store, doc_id))),
                    api_key, first, second)

\* The proposal of propose_job_tailored_edits is stored as the pending edit.
tailor_outcome(store, doc_id, pipe) ==
    IF pipe.raised THEN Handled(store, Raised, pipe)
    ELSE Handled(save_pending(store, doc_id, pipe.proposal),
                 [doc_id |-> doc_id, source_key |-> source_key(store, doc_id),
                  assistant_message |-> pipe.proposal.assistant_message,
                  edits_summary |-> pipe.proposal.edits_summary,
                  proposed_resume |-> pipe.proposal.proposed_resume,
                  needs_confirmation |-> TRUE, status |-> "pending"],
                 pipe)

tailor_loaded(store, doc_id, job_description, loaded, api_key, first, second) ==
    IF ~loaded.ok THEN Handled(store, Raised, NotInvoked)
    ELSE tailor_outcome(store, doc_id,
                        Invoked("propose_job_tailored_edits", loaded.val, job_description,
                                propose_job_tailored_edits(api_key, loaded.val,
                                                           job_description, first, second)))

\* job_description = req.job_description.strip()
tailor_request(store, doc_id, job_description, api_key, first, second) ==
    IF job_description = << >>
    THEN Handled(store, [error |-> "job_description is required"], NotInvoked)
    ELSE IF ~has_object(store, source_key(store, doc_id))
        THEN Handled(store, Raised, NotInvoked)
    ELSE tailor_loaded(store, doc_id, job_description,
                       model_validate(get_object_bytes(store, source_key(store, doc_id))),
                       api_key, first, second)

\* POST /api/resume/{doc_id}/tailor
tailor_resume_for_job(store, doc_id, text, api_key, first, second) ==
    tailor_request(store, doc_id, Strip(text), api_key, first, second)

\* ------------------------------------------------------ rendering, render.py

\* LATEX_REPLACEMENTS in the order of the dict.
LATEX_REPLACEMENTS ==
    <<[key |-> "&", value |-> <<"\\","&">>],
      [key |-> "%", value |-> <<"\\","%">>],
      [key |-> "$", value |-> <<"\\","$">>],
      [key |-> "#", value |-> <<"\\","#">>],
      [key |-> "_", value |-> <<"\\","_">>],
      [key |-> "{", value |-> <<"\\","{">>],
      [key |-> "}", value |-> <<"\\","}">>],
      [key |-> "~", value |-> <<"\\","t","e","x","t","a","s","c","i","i","t","i","l","d","e","{","}">>],
      [key |-> "^", value |-> <<"\\","t","e","x","t","a","s","c","i","i","c","i","r","c","u","m","{","}">>],
      [key |-> "\\", value |-> <<"\\","t","e","x","t","b","a","c","k","s","l","a","s","h","{","}">>]>>

\* LATEX_REPLACEMENTS[key]
ReplacementOf(key) ==
    LATEX_REPLACEMENTS[CHOOSE i \in DOMAIN LATEX_REPLACEMENTS :
                           LATEX_REPLACEMENTS[i].key = key].value

\* str.replace(key, value) for a one-character key
RECURSIVE ReplaceChar(_, _, _)
ReplaceChar(s, key, value) ==
    IF s = << >> THEN << >>
    ELSE (IF Head(s) = key THEN value ELSE <<Head(s)>>) \o ReplaceChar(Tail(s), key, value)

\* The loop of _escape_latex from the i-th item of the dict on.
RECURSIVE EscapeItems(_, _)
EscapeItems(escaped, i) ==
    IF i > Len(LATEX_REPLACEMENTS) THEN escaped
    ELSE IF LATEX_REPLACEMENTS[i].key = "\\" THEN EscapeItems(escaped, i + 1)
    ELSE EscapeItems(ReplaceChar(escaped, LATEX_REPLACEMENTS[i].key,
                                 LATEX_REPLACEMENTS[i].value), i + 1)

escape_latex(text) ==
    IF text = << >> THEN << >>
    ELSE EscapeItems(ReplaceChar(text, "\\", ReplacementOf("\\")), 1)

\* sep.join(parts)
RECURSIVE Join(_, _)
Join(parts, sep) ==
    IF parts = << >> THEN << >>
    ELSE IF Len(parts) = 1 THEN parts[1]
    ELSE parts[1] \o sep \o Join(Tail(parts), sep)

\* [part for part in parts if part]
NonEmpty(parts) == SelectSeq(parts, LAMBDA part : part # << >>)

\* [item for item in items if item.strip()]
NonBlank(items) == SelectSeq(items, LAMBDA item : Strip(item) # << >>)

join_non_empty(parts, sep) == Join(NonEmpty(parts), sep)

\* [_escape_latex(item) for item in items]
EscapedItems(items) == [i \in DOMAIN items |-> escape_latex(items[i])]

ItemLines(cleaned) == [i \in DOMAIN cleaned |-> <<" "," "," "," ","\\","i","t","e","m"," ">> \o cleaned[i]]

\* format_itemize keeping the blank items.
format_itemize_keeping_blank(items) ==
    IF items = << >> THEN << >>
    ELSE Join(<<<<"\\","b","e","g","i","n","{","i","t","e","m","i","z","e","}">>>> \o ItemLines(EscapedItems(items))
              \o <<<<"\\","e","n","d","{","i","t","e","m","i","z","e","}">>>>, <<"\n">>)

format_itemize(items) ==
    IF NonBlank(items) = << >> THEN << >>
    ELSE Join(<<<<"\\","b","e","g","i","n","{","i","t","e","m","i","z","e","}">>>> \o ItemLines(EscapedItems(NonBlank(items)))
              \o <<<<"\\","e","n","d","{","i","t","e","m","i","z","e","}">>>>, <<"\n">>)

\* float(gpa): the text of a decimal literal, as the builtin reads it. A digit
\* part is digits with single underscores between them.
IsDigitPart(s) ==
    /\ s # << >>
    /\ \A i \in DOMAIN s : s[i] \in Digits \cup {"_"}
    /\ s[1] \in Digits /\ s[Len(s)] \in Digits
    /\ \A i \in 1..(Len(s) - 1) : ~(s[i] = "_" /\ s[i + 1] = "_")

DigitsOf(s) == SelectSeq(s, LAMBDA ch : ch \in Digits)

DigitValue(ch) == CHOOSE n \in 0..9 : <<"0","1","2","3","4","5","6","7","8","9">>[n + 1] = ch

RECURSIVE IntOf(_)
IntOf(digits) ==
    IF digits = << >> THEN 0
    ELSE 10 * IntOf(SubSeq(digits, 1, Len(digits) - 1)) + DigitValue(digits[Len(digits)])

RECURSIVE Pow10(_)
Pow10(n) == IF n = 0 THEN 1 ELSE 10 * Pow10(n - 1)

Signed(s) == s # << >> /\ Head(s) \in {"+", "-"}

Unsigned(s) == IF Signed(s) THEN Tail(s) ELSE s

\* Position of the first character of s that is in chars, 0 if there is none.
FirstOf(s, chars) ==
    IF \E i \in DOMAIN s : s[i] \in chars
    THEN CHOOSE i \in DOMAIN s : s[i] \in chars /\ \A j \in 1..(i - 1) : s[j] \notin chars
    ELSE 0

Mantissa(s) == IF FirstOf(s, {"e", "E"}) = 0 THEN s ELSE SubSeq(s, 1, FirstOf(s, {"e", "E"}) - 1)

Exponent(s) == IF FirstOf(s, {"e", "E"}) = 0 THEN <<"0">> ELSE DropFirst(s, FirstOf(s, {"e", "E"}))

IntegerDigits(m) == IF FirstOf(m, {"."}) = 0 THEN m ELSE SubSeq(m, 1, FirstOf(m, {"."}) - 1)

FractionDigits(m) == IF FirstOf(m, {"."}) = 0 THEN << >> ELSE DropFirst(m, FirstOf(m, {"."}))

IsMantissa(m) ==
    /\ IntegerDigits(m) = << >> \/ IsDigitPart(IntegerDigits(m))
    /\ FractionDigits(m) = << >> \/ IsDigitPart(FractionDigits(m))
    /\ IntegerDigits(m) # << >> \/ FractionDigits(m) # << >>

IsDecimal(s) == IsMantissa(Mantissa(s)) /\ IsDigitPart(Unsigned(Exponent(s)))

ExponentValue(e) ==
    IF Signed(e) /\ Head(e) = "-" THEN 0 - IntOf(DigitsOf(Unsigned(e)))
    ELSE IntOf(DigitsOf(Unsigned(e)))

\* AtLeastThreshold with a strict comparison.
AboveThreshold(digits, scale) ==
    IF scale >= 0 THEN 10 * IntOf(digits) > 35 * Pow10(scale)
    ELSE 10 * IntOf(digits) * Pow10(0 - scale) > 35

\* digits / 10^scale >= 3.5
AtLeastThreshold(digits, scale) ==
    IF scale >= 0 THEN 10 * IntOf(digits) >= 35 * Pow10(scale)
    ELSE 10 * IntOf(digits) * Pow10(0 - scale) >= 35

DecimalAtLeastThreshold(s) ==
    AtLeastThreshold(DigitsOf(IntegerDigits(Mantissa(s)) \o FractionDigits(Mantissa(s))),
                     Len(DigitsOf(FractionDigits(Mantissa(s)))) - ExponentValue(Exponent(s)))

\* float(text) raises ValueError
FloatRaises(text) ==
    /\ Lower(Unsigned(Strip(text))) \notin {<<"i","n","f">>, <<"i","n","f","i","n","i","t","y">>, <<"n","a","n">>}
    /\ ~IsDecimal(Unsigned(Strip(text)))

\* float(text) >= 3.5, for a text float accepts
FloatAtLeastThreshold(text) ==
    /\ ~(Signed(Strip(text)) /\ Head(Strip(text)) = "-")
    /\ Lower(Unsigned(Strip(text))) # <<"n","a","n">>
    /\ \/ Lower(Unsigned(Strip(text))) \in {<<"i","n","f">>, <<"i","n","f","i","n","i","t","y">>}
       \/ DecimalAtLeastThreshold(Unsigned(Strip(text)))

gpa_should_show(gpa) ==
    IF gpa = << >> THEN FALSE
    ELSE IF FloatRaises(gpa) THEN TRUE
    ELSE FloatAtLeastThreshold(gpa)

section(title, body) ==
    IF Strip(body) = << >> THEN << >>
    ELSE <<"\\","s","e","c","t","i","o","n","*","{">> \o escape_latex(title) \o <<"}","\n">> \o Strip(body) \o <<"\n">>

\* The lines of one education entry.
degree_bits(edu) == Join(NonEmpty(<<escape_latex(edu.degree), escape_latex(edu.major)>>), <<" ">>)

education_header(edu) ==
    join_non_empty(<<IF escape_latex(edu.school) # << >>
                     THEN <<"\\","t","e","x","t","b","f","{">> \o escape_latex(edu.school) \o <<"}">> ELSE << >>,
                     IF escape_latex(edu.grad) # << >>
                     THEN <<"\\","h","f","i","l","l"," ">> \o escape_latex(edu.grad) ELSE << >>>>, <<" ">>)

education_coursework(edu) == Join(EscapedItems(NonBlank(edu.coursework)), <<","," ">>)

education_lines(edu) ==
    (IF education_header(edu) # << >> THEN <<education_header(edu) \o <<" ","\\">>>> ELSE << >>)
    \o (IF degree_bits(edu) # << >> THEN <<degree_bits(edu) \o <<" ","\\">>>> ELSE << >>)
    \o (IF edu.coursework # << >> /\ education_coursework(edu) # << >>
        THEN <<<<"\\","t","e","x","t","b","f","{","C","o","u","r","s","e","w","o","r","k",":","}",
          " ">> \o education_coursework(edu)>> ELSE << >>)
    \o (IF gpa_should_show(edu.gpa) THEN <<<<"G","P","A",":"," ">> \o escape_latex(edu.gpa)>> ELSE << >>)

\* entries of _render_education: the entries with at least one line, joined.
RECURSIVE education_entries(_)
education_entries(education) ==
    IF education = << >> THEN << >>
    ELSE (IF education_lines(Head(education)) # << >>
          THEN <<Join(education_lines(Head(education)), <<"\n">>)>> ELSE << >>)
         \o education_entries(Tail(education))

render_education(resume) ==
    section(<<"E","d","u","c","a","t","i","o","n">>, Join(education_entries(resume.education), <<"\n","\n">>))

render_awards(resume) == section(<<"A","w","a","r","d","s">>, format_itemize(NonBlank(resume.awards)))

normalize_url(url) ==
    IF url = << >> THEN << >>
    ELSE IF StartsWith(url, <<"h","t","t","p",":","/","/">>) \/ StartsWith(url, <<"h","t","t","p","s",":","/","/">>) THEN url
    ELSE <<"h","t","t","p","s",":","/","/">> \o url

\* \href{target}{text}
Href(target, text) == <<"\\","h","r","e","f","{">> \o target \o <<"}","{">> \o text \o <<"}">>

\* \href{link}{escaped field} for a link field of the header that is set
header_link(field) ==
    IF field = << >> THEN << >> ELSE <<Href(normalize_url(field), escape_latex(field))>>

contact_parts(header) ==
    (IF header.phone # << >> THEN <<escape_latex(header.phone)>> ELSE << >>)
    \o (IF header.email # << >>
        THEN <<Href(<<"m","a","i","l","t","o",":">> \o header.email, escape_latex(header.email))>> ELSE << >>)
    \o header_link(header.linkedin)
    \o header_link(header.github)
    \o header_link(header.portfolio)
    \o (IF header.location # << >> THEN <<escape_latex(header.location)>> ELSE << >>)

render_header(resume) ==
    Join(<<<<"\\","b","e","g","i","n","{","c","e","n","t","e","r","}">>>>
         \o (IF escape_latex(resume.header.name) # << >>
             THEN <<<<" "," "," "," ","{","\\","L","A","R","G","E"," ","\\","t","e","x","t","b","f",
          "{">> \o escape_latex(resume.header.name) \o <<"}","}"," ","\\">>>>
             ELSE << >>)
         \o (IF join_non_empty(contact_parts(resume.header), <<" ","\\","q","u","a","d"," ">>) # << >>
             THEN <<<<" "," "," "," ">> \o join_non_empty(contact_parts(resume.header), <<" ","\\","q","u","a","d"," ">>)>>
             ELSE << >>)
         \o <<<<"\\","e","n","d","{","c","e","n","t","e","r","}">>>>, <<"\n">>)

\* start -- end
date_range(start, end) == join_non_empty(<<escape_latex(start), escape_latex(end)>>, <<" ","-","-"," ">>)

\* The header line of a project: name, link and dates, as far as they are set.
project_named(project) ==
    IF escape_latex(project.name) # << >>
    THEN <<"\\","t","e","x","t","b","f","{">> \o escape_latex(project.name) \o <<"}">> ELSE << >>

project_linked(project) ==
    IF project.link # << >>
    THEN join_non_empty(<<project_named(project),
                          Href(normalize_url(project.link), escape_latex(project.link))>>,
                        <<" ","\\","t","e","x","t","e","m","d","a","s","h"," ">>)
    ELSE project_named(project)

project_header(project) ==
    IF date_range(project.start, project.end) # << >>
    THEN join_non_empty(<<project_linked(project),
                          <<"\\","h","f","i","l","l"," ">> \o date_range(project.start, project.end)>>, <<" ">>)
    ELSE project_linked(project)

project_parts(project) ==
    (IF project_header(project) # << >> THEN <<project_header(project) \o <<" ","\\">>>> ELSE << >>)
    \o (IF Join(EscapedItems(NonBlank(project.stack)), <<","," ">>) # << >>
        THEN <<<<"\\","t","e","x","t","i","t","{","S","t","a","c","k",":","}"," ">> \o Join(EscapedItems(NonBlank(project.stack)), <<","," ">>)>>
        ELSE << >>)
    \o (IF format_itemize(project.bullets) # << >>
        THEN <<format_itemize(project.bullets)>> ELSE << >>)

RECURSIVE project_entries(_)
project_entries(projects) ==
    IF projects = << >> THEN << >>
    ELSE (IF project_parts(Head(projects)) # << >>
          THEN <<Join(project_parts(Head(projects)), <<"\n">>)>> ELSE << >>)
         \o project_entries(Tail(projects))

render_projects(resume) == section(<<"P","r","o","j","e","c","t","s">>, Join(project_entries(resume.projects), <<"\n","\n">>))

\* The header line of a role: company, location and dates, as far as they are set.
role_left_text(role) ==
    Join((IF escape_latex(role.company) # << >>
          THEN <<<<"\\","t","e","x","t","b","f","{">> \o escape_latex(role.company) \o <<"}">>>> ELSE << >>)
         \o (IF escape_latex(role.location) # << >>
             THEN <<<<"\\","t","e","x","t","i","t","{">> \o escape_latex(role.location) \o <<"}">>>> ELSE << >>), <<" ">>)

role_header(role) ==
    join_non_empty(<<role_left_text(role),
                     IF date_range(role.start, role.end) # << >>
                     THEN <<"\\","h","f","i","l","l"," ">> \o date_range(role.start, role.end) ELSE << >>>>, <<" ">>)

\* parts of an entry: the header line, the title line and the bullets, as set.
entry_parts(header, title, bullets) ==
    (IF header # << >> THEN <<header \o <<" ","\\">>>> ELSE << >>)
    \o (IF title # << >> THEN <<title>> ELSE << >>)
    \o (IF bullets # << >> THEN <<bullets>> ELSE << >>)

RECURSIVE experience_entries(_)
experience_entries(experience) ==
    IF experience = << >> THEN << >>
    ELSE (IF entry_parts(role_header(Head(experience)), escape_latex(Head(experience).role),
                         format_itemize(Head(experience).bullets)) # << >>
          THEN <<Join(entry_parts(role_header(Head(experience)),
                                  escape_latex(Head(experience).role),
                                  format_itemize(Head(experience).bullets)), <<"\n">>)>>
          ELSE << >>)
         \o experience_entries(Tail(experience))

render_experience(resume) ==
    section(<<"W","o","r","k"," ","E","x","p","e","r","i","e","n","c","e">>, Join(experience_entries(resume.experience), <<"\n","\n">>))

skills_line(label, skills) ==
    IF skills = << >> THEN << >>
    ELSE <<<<"\\","t","e","x","t","b","f","{">> \o label \o <<":","}"," ">> \o Join(EscapedItems(skills), <<","," ">>)>>

render_skills(resume) ==
    section(<<"S","k","i","l","l","s">>,
            Join(skills_line(<<"P","r","o","g","r","a","m","m","i","n","g"," ","L","a","n","g","u","a","g","e",
          "s">>, resume.skills.languages)
                 \o skills_line(<<"F","r","a","m","e","w","o","r","k","s">>, resume.skills.frameworks)
                 \o skills_line(<<"T","o","o","l","s">>, resume.skills.tools)
                 \o skills_line(<<"C","o","n","c","e","p","t","s">>, resume.skills.concepts), <<"\\","\\","\n">>))

leader_header(leader) ==
    join_non_empty(<<IF escape_latex(leader.org) # << >>
                     THEN <<"\\","t","e","x","t","b","f","{">> \o escape_latex(leader.org) \o <<"}">> ELSE << >>,
                     IF date_range(leader.start, leader.end) # << >>
                     THEN <<"\\","h","f","i","l","l"," ">> \o date_range(leader.start, leader.end) ELSE << >>>>,
                   <<" ">>)

RECURSIVE leadership_entries(_)
leadership_entries(leadership) ==
    IF leadership = << >> THEN << >>
    ELSE (IF entry_parts(leader_header(Head(leadership)), escape_latex(Head(leadership).title),
                         format_itemize(Head(leadership).bullets)) # << >>
          THEN <<Join(entry_parts(leader_header(Head(leadership)),
                                  escape_latex(Head(leadership).title),
                                  format_itemize(Head(leadership).bullets)), <<"\n">>)>>
          ELSE << >>)
         \o leadership_entries(Tail(leadership))

render_leadership(resume) ==
    section(<<"L","e","a","d","e","r","s","h","i","p"," ","E","x","p","e","r","i","e","n","c",
          "e">>, Join(leadership_entries(resume.leadership), <<"\n","\n">>))

\* str.replace(old, new): the occurrences of old from left to right, not overlapping
RECURSIVE Replace(_, _, _)
Replace(s, old, new) ==
    IF Find(s, old) = 0 THEN s
    ELSE SubSeq(s, 1, Find(s, old) - 1) \o new
         \o Replace(DropFirst(s, Find(s, old) + Len(old) - 1), old, new)

\* replacements of render_resume_to_latex, in the order of the dict
replacements(resume) ==
    <<[key |-> <<"H","E","A","D","E","R","_","B","L","O","C","K">>, value |-> render_header(resume)],
      [key |-> <<"E","D","U","C","A","T","I","O","N","_","B","L","O","C","K">>, value |-> render_education(resume)],
      [key |-> <<"E","X","P","E","R","I","E","N","C","E","_","B","L","O","C","K">>, value |-> render_experience(resume)],
      [key |-> <<"P","R","O","J","E","C","T","S","_","B","L","O","C","K">>, value |-> render_projects(resume)],
      [key |-> <<"S","K","I","L","L","S","_","B","L","O","C","K">>, value |-> render_skills(resume)],
      [key |-> <<"L","E","A","D","E","R","S","H","I","P","_","B","L","O","C","K">>, value |-> render_leadership(resume)],
      [key |-> <<"A","W","A","R","D","S","_","B","L","O","C","K">>, value |-> render_awards(resume)]>>

\* The loop of render_resume_to_latex from the i-th replacement on.
RECURSIVE ReplaceBlocks(_, _, _)
ReplaceBlocks(rendered, blocks, i) ==
    IF i > Len(blocks) THEN rendered
    ELSE ReplaceBlocks(Replace(rendered, <<"{","{">> \o blocks[i].key \o <<"}","}">>, Strip(blocks[i].value)),
                       blocks, i + 1)

render_resume_to_latex(resume, template_tex) ==
    ReplaceBlocks(template_tex, replacements(resume), 1)

\* --------------------------------------------------------- the other handlers

\* extract_text accepts PDF and DOCX uploads only (HTTP 400 otherwise).
supported_upload(filename) == EndsWith(Lower(filename), <<".","p","d","f">>) \/ EndsWith(Lower(filename), <<".","d","o","c","x">>)

\* POST /api/resume
upload_resume(store, doc_id, filename, raw_text) ==
    IF ~supported_upload(filename) THEN Handled(store, Raised, NotInvoked)
    ELSE Handled(put_object(put_object(store, <<"uploads", doc_id, filename>>,
                                       [bytes_of |-> filename]),
                            upload_text_key(doc_id), raw_text),
                 [doc_id |-> doc_id, filename |-> filename,
                  text_preview |-> SubSeq(raw_text, 1, Min({Len(raw_text), 1200})),
                  text_chars |-> Len(raw_text)],
                 NotInvoked)

\* POST /api/resume/{doc_id}/parse. parse_resume_text returns a validated Resume,
\* built from the backend's answer or from the heuristic seed: data is the object
\* it validates.
parsed_resume(store, doc_id, resume) ==
    IF ~resume.ok THEN Handled(store, Raised, NotInvoked)
    ELSE Handled(put_object(store, parsed_key(doc_id), resume.val),
                 [doc_id |-> doc_id, parsed_key |-> parsed_key(doc_id),
                  resume |-> resume.val],
                 NotInvoked)

parse_resume(store, doc_id, data) ==
    IF ~has_object(store, upload_text_key(doc_id)) THEN Handled(store, Raised, NotInvoked)
    ELSE parsed_resume(store, doc_id, model_validate(data))

export_key(doc_id) == <<"exports", doc_id, "resume_bundle.zip">>

\* The attributes of a validated model, as the renderer reads them.
RECURSIVE Attributes(_)
Attributes(j) ==
    IF j.t \in {"list", "obj"} THEN [x \in DOMAIN j.v |-> Attributes(j.v[x])] ELSE j.v

\* The zip written by export_resume: resume.json and resume.tex
Bundle(resume_json, rendered_tex) == [resume_json |-> resume_json, resume_tex |-> rendered_tex]

exported(store, doc_id, resume_json, resume, template_tex) ==
    IF ~resume.ok THEN Handled(store, Raised, NotInvoked)
    ELSE Handled(put_object(store, export_key(doc_id),
                            Bundle(resume_json,
                                   render_resume_to_latex(Attributes(resume.val),
                                                          template_tex))),
                 [doc_id |-> doc_id, source_key |-> source_key(store, doc_id),
                  export_key |-> export_key(doc_id), download_url |-> export_key(doc_id)],
                 NotInvoked)

\* POST /api/resume/{doc_id}/export; template_tex is None when template.tex is absent.
export_resume(store, doc_id, template_tex) ==
    IF ~has_object(store, source_key(store, doc_id)) THEN Handled(store, Raised, NotInvoked)
    ELSE IF template_tex = None
        THEN Handled(store, [error |-> <<"M","i","s","s","i","n","g"," ","t","e","m","p","l","a","t","e",".","t","e","x">>,
                             used_resume_key |-> source_key(store, doc_id)], NotInvoked)
    ELSE exported(store, doc_id, get_object_bytes(store, source_key(store, doc_id)),
                  model_validate(get_object_bytes(store, source_key(store, doc_id))),
                  template_tex)

\* ------------------------------------------------------------------ inputs

\* The number of chat turns a document's history may hold in the model.
MaxTurns == 2

DocIds == {"d1"}

Filenames == {<<"c","v",".","p","d","f">>, <<"c","v",".","t","x","t">>}

RawTexts == {<<"A","l"," ","R","o","e","\n","a","l","@","x",".","i","o">>}

JobDescriptions == {<<"D","a","t","a"," ","e","n","g","i","n","e","e","r">>, <<" ">>}

BackendResults == {Returned(text) : text \in BackendTexts} \cup {BackendFailure}

\* ------------------------------------------------------------ state machine

VARIABLES
    objects,    \* the object store: key -> stored value
    api_key,    \* whether GEMINI_API_KEY is set in the environment
    request,    \* the last request handled
    response,   \* what its handler returned, or [raised |-> TRUE]
    pipeline    \* the propose_* invocation of the last request, if any, with
                \* the backend calls it made, in order

vars == <<objects, api_key, request, response, pipeline>>

Init ==
    /\ objects = << >>
    /\ api_key \in BOOLEAN
    /\ request = [op |-> "none"]
    /\ response = [none |-> TRUE]
    /\ pipeline = NotInvoked

Finish(handled) ==
    /\ objects' = handled.store
    /\ response' = handled.response
    /\ pipeline' = handled.pipeline
    /\ UNCHANGED api_key

\* uuid4() names a document no earlier upload used.
UploadResume(doc_id) ==
    \E filename \in Filenames, raw_text \in RawTexts :
        /\ ~has_object(objects, upload_text_key(doc_id))
        /\ request' = [op |-> "upload", doc_id |-> doc_id, message |-> filename]
        /\ Finish(upload_resume(objects, doc_id, filename, raw_text))

ParseResume(doc_id) ==
    \E data \in ParseOutputs :
        /\ request' = [op |-> "parse", doc_id |-> doc_id, message |-> << >>]
        /\ Finish(parse_resume(objects, doc_id, data))

\* The backend's answers are drawn for the calls a handler makes: first is fixed
\* when no call is made and second when no repair call is made, so that each run
\* is generated once.
ChatResume(doc_id) ==
    \E message \in Messages :
        LET none == chat_resume(objects, doc_id, message, api_key,
                                BackendFailure, BackendFailure)
        IN  /\ Len(load_history(objects, doc_id)) < 2 * MaxTurns
            /\ request' = [op |-> "chat", doc_id |-> doc_id, message |-> message]
            /\ \E first \in BackendResults :
                LET one == chat_resume(objects, doc_id, message, api_key,
                                       first, BackendFailure)
                IN  /\ none.pipeline.calls = << >> => first = BackendFailure
                    /\ \E second \in BackendResults :
                        /\ Len(one.pipeline.calls) < 2 => second = BackendFailure
                        /\ Finish(chat_resume(objects, doc_id, message, api_key,
                                              first, second))

TailorResume(doc_id) ==
    \E text \in JobDescriptions :
        LET none == tailor_resume_for_job(objects, doc_id, text, api_key,
                                          BackendFailure, BackendFailure)
        IN  /\ Len(load_history(objects, doc_id)) < 2 * MaxTurns
            /\ request' = [op |-> "tailor", doc_id |-> doc_id, message |-> text]
            /\ \E first \in BackendResults :
                LET one == tailor_resume_for_job(objects, doc_id, text, api_key,
                                                 first, BackendFailure)
                IN  /\ none.pipeline.calls = << >> => first = BackendFailure
                    /\ \E second \in BackendResults :
                        /\ Len(one.pipeline.calls) < 2 => second = BackendFailure
                        /\ Finish(tailor_resume_for_job(objects, doc_id, text,
                                                        api_key, first, second))

Next ==
    \E doc_id \in DocIds :
        \/ UploadResume(doc_id)
        \/ ParseResume(doc_id)
        \/ ChatResume(doc_id)
        \/ TailorResume(doc_id)

Spec == Init /\ [][Next]_vars


\* ------------------------------------------- the pipeline on its own

\* propose_chat_edits and propose_job_tailored_edits applied once to inputs drawn
\* at the start, the backend answering with any text of AllTexts or failing.
AnyResults == {Returned(text) : text \in AllTexts} \cup {BackendFailure}

\* The Resume passed in, as its model_dump().
PipelineResumes == {Validate(Resume, data).val : data \in ParseOutputs \cup {JObj(NoMembers)}}

PipelineHistories ==
    {<< >>, extend_history(<< >>, <<"b","u","l","l","e","t","s">>, <<"o","k">>)}

PipelineRequests ==
    {[op |-> "propose_chat_edits", resume |-> resume, message |-> BULLETS_INSTRUCTION,
      history |-> history] : resume \in PipelineResumes, history \in PipelineHistories}
    \cup
    {[op |-> "propose_job_tailored_edits", resume |-> resume,
      message |-> <<"D","a","t","a"," ","e","n","g","i","n","e","e","r">>, history |-> << >>] : resume \in PipelineResumes}

PipelineInit ==
    /\ objects = << >>
    /\ api_key \in BOOLEAN
    /\ request \in PipelineRequests
    /\ response = [none |-> TRUE]
    /\ pipeline = NotInvoked

ProposeChatEdits ==
    LET none == propose_chat_edits(api_key, request.resume, request.message,
                                   request.history, BackendFailure, BackendFailure)
    IN  /\ request.op = "propose_chat_edits"
        /\ ~pipeline.invoked
        /\ \E first \in AnyResults :
            LET one == propose_chat_edits(api_key, request.resume, request.message,
                                          request.history, first, BackendFailure)
            IN  /\ none.calls = << >> => first = BackendFailure
                /\ \E second \in AnyResults :
                    /\ Len(one.calls) < 2 => second = BackendFailure
                    /\ pipeline' = Invoked("propose_chat_edits", request.resume,
                                           request.message,
                                           propose_chat_edits(api_key, request.resume,
                                                              request.message,
                                                              request.history,
                                                              first, second))
                    /\ UNCHANGED <<objects, api_key, request, response>>

ProposeJobTailoredEdits ==
    LET none == propose_job_tailored_edits(api_key, request.resume, request.message,
                                           BackendFailure, BackendFailure)
    IN  /\ request.op = "propose_job_tailored_edits"
        /\ ~pipeline.invoked
        /\ \E first \in AnyResults :
            LET one == propose_job_tailored_edits(api_key, request.resume,
                                                  request.message, first, BackendFailure)
            IN  /\ none.calls = << >> => first = BackendFailure
                /\ \E second \in AnyResults :
                    /\ Len(one.calls) < 2 => second = BackendFailure
                    /\ pipeline' = Invoked("propose_job_tailored_edits", request.resume,
                                           request.message,
                                           propose_job_tailored_edits(api_key,
                                                                      request.resume,
                                                                      request.message,
                                                                      first, second))
                    /\ UNCHANGED <<objects, api_key, request, response>>

PipelineNext == ProposeChatEdits \/ ProposeJobTailoredEdits

SpecPipeline == PipelineInit /\ [][PipelineNext]_vars

\* ------------------------------------------------ one chat turn on its own

\* The stores a chat turn can find, each one left behind by the handlers: after
\* the upload and the parse; after a chat turn that stored a proposal; after the
\* proposal was applied; after it was declined; after a tailoring whose two
\* backend answers did not parse.
ParsedStore(doc_id) ==
    parse_resume(upload_resume(<< >>, doc_id, <<"c","v",".","p","d","f">>, <<"A","l"," ","R","o","e","\n","a","l","@","x",".","i","o">>).store,
                 doc_id, CHOOSE data \in ParseOutputs : TRUE).store

ProposedStore(doc_id) ==
    chat_resume(ParsedStore(doc_id), doc_id, <<"b","u","l","l","e","t","s">>, TRUE,
                Returned(TEXT_FENCED_EDIT), BackendFailure).store

TurnStores(doc_id) ==
    {ParsedStore(doc_id),
     ProposedStore(doc_id),
     chat_resume(ProposedStore(doc_id), doc_id, <<"y","e","s">>, TRUE,
                 BackendFailure, BackendFailure).store,
     chat_resume(ProposedStore(doc_id), doc_id, <<" ","N","o"," ">>, TRUE,
                 BackendFailure, BackendFailure).store,
     tailor_resume_for_job(ParsedStore(doc_id), doc_id, <<"D","a","t","a"," ","e","n","g","i","n","e","e","r">>, TRUE,
                           Returned(TEXT_UNBALANCED), Returned(TEXT_UNBALANCED)).store}

TurnInit ==
    /\ objects \in UNION {TurnStores(doc_id) : doc_id \in DocIds}
    /\ api_key \in BOOLEAN
    /\ request = [op |-> "none"]
    /\ response = [none |-> TRUE]
    /\ pipeline = NotInvoked

\* chat_resume handling one message of TurnMessages.
ChatTurn(doc_id) ==
    \E message \in TurnMessages :
        LET none == chat_resume(objects, doc_id, message, api_key,
                                BackendFailure, BackendFailure)
        IN  /\ request.op = "none"
            /\ request' = [op |-> "chat", doc_id |-> doc_id, message |-> message]
            /\ \E first \in BackendResults :
                LET one == chat_resume(objects, doc_id, message, api_key,
                                       first, BackendFailure)
                IN  /\ none.pipeline.calls = << >> => first = BackendFailure
                    /\ \E second \in BackendResults :
                        /\ Len(one.pipeline.calls) < 2 => second = BackendFailure
                        /\ Finish(chat_resume(objects, doc_id, message, api_key,
                                              first, second))

TurnNext == \E doc_id \in DocIds : ChatTurn(doc_id)

SpecTurn == TurnInit /\ [][TurnNext]_vars

\* ------------------------------------------- _extract_json_object on its own

\* One JSON object, optionally inside a code fence, between commentary.
JsonObjects ==
    {<<"{","\"","a","\"",":"," ","\"","b","\"","}">>,
     <<"{","\"","a","\"",":"," ","{","\"","a","\"",":"," ","1","}","}">>,
     <<"{","\"","a","\"",":"," ","\"","}","{","\"","}">>,
     <<"{","\"","a","\"",":"," ","\"","x","\\","\"","}","\"","}">>,
     <<"{","\"","a","\"",":"," ","\"","<bq>","<bq>","<bq>","\"","}">>}

CommentaryBefore == {<< >>, <<"S","u","r","e",":"," ">>, <<"H","e","r","e"," ","{","y","o","u","}"," ","g","o",":"," ">>}

CommentaryAfter == {<< >>, <<" ","D","o","n","e",".">>, <<" ","T","h","a","n","k","s"," ","{","a","l","l","}">>}

NoFence == [open |-> << >>, close |-> << >>]

CodeFences ==
    {NoFence,
     [open |-> <<"<bq>","<bq>","<bq>","j","s","o","n","\n">>, close |-> <<"\n","<bq>","<bq>","<bq>">>],
     [open |-> <<"<bq>","<bq>","<bq>","\n">>, close |-> <<"\n","<bq>","<bq>","<bq>">>]}

ExtractRequests ==
    {[op |-> "extract", before |-> before, fence |-> fence, object |-> object,
      after |-> after,
      text |-> before \o fence.open \o object \o fence.close \o after] :
        before \in CommentaryBefore, fence \in CodeFences, object \in JsonObjects,
        after \in CommentaryAfter}

\* Texts for the scan: an escaped backslash at the end of a string, two objects,
\* one that is never closed, one with an escaped brace outside a string, no object.
ScanObjects ==
    {<<"{","\"","a","\"",":"," ","\"","x","\\","\\","\"","}">>,
     <<"{","\"","a","\"",":"," ","1","}"," ","{","\"","b","\"",":"," ","2","}">>,
     <<"{","\"","a","\"",":"," ","{","\"","b","\"",":"," ","1","}">>,
     <<"{","\"","a","\"",":"," ","1"," ","\\","}"," ","}">>,
     <<"n","o","n","e">>}

ScanRequests ==
    {[op |-> "extract", before |-> before, fence |-> NoFence, object |-> object,
      after |-> after, text |-> before \o object \o after] :
        before \in {<< >>, <<"S","u","r","e",":"," ">>}, object \in ScanObjects, after \in {<< >>, <<" ","D","o","n","e",".">>}}

ExtractInit ==
    /\ objects = << >>
    /\ api_key \in {TRUE}
    /\ request \in ExtractRequests \cup ScanRequests
    /\ response = [none |-> TRUE]
    /\ pipeline = NotInvoked

ExtractJsonObject ==
    /\ request.op = "extract"
    /\ response = [none |-> TRUE]
    /\ response' = extract_json_object(request.text)
    /\ UNCHANGED <<objects, api_key, request, pipeline>>

ExtractNext == ExtractJsonObject

SpecExtract == ExtractInit /\ [][ExtractNext]_vars

\* ------------------------------------------------- rendering on its own

\* The characters of LATEX_REPLACEMENTS and one that is not in it.
EscapeAlphabet == {LATEX_REPLACEMENTS[i].key : i \in DOMAIN LATEX_REPLACEMENTS} \cup {"a"}

\* Every text of at most two characters over the alphabet, and two longer ones.
EscapeTexts ==
    {<< >>} \cup {<<a>> : a \in EscapeAlphabet}
    \cup {<<a, b>> : a \in EscapeAlphabet, b \in EscapeAlphabet}
    \cup {<<"a","~","b","^","{","c","}","&","\\","_">>, <<"5","0","%"," ","o","f"," ","$","5"," ","#","1">>}

GpaTexts ==
    {<< >>, <<" ">>, <<"3",".","2">>, <<"3",".","5">>, <<"3",".","5","0">>, <<"3",".","4","9">>, <<"3",".","5","1">>, <<"4">>, <<"4",".">>, <<".","5">>, <<" ","3",".","7"," ">>,
     <<"+","3",".","6">>, <<"-","4">>, <<"1","e","1">>, <<"3","5","e","-","1">>, <<"3","6","E","-","1">>, <<"3","_","6">>, <<"3","_","_","6">>, <<"0",".","0","3","5","e","2">>, <<"n","a","n">>, <<"i","n","f">>,
     <<"-","i","n","f">>, <<"I","n","f","i","n","i","t","y">>, <<"P","a","s","s">>, <<"N","/","A">>, <<"3",",","9">>, <<"3",".","5",".","1">>, <<"e","5">>, <<"0","x","4">>, <<"3",".","8","/","4",".","0">>,
     <<"A","_","1">>}

BlankEducation ==
    [school |-> << >>, degree |-> << >>, major |-> << >>, grad |-> << >>, gpa |-> << >>,
     coursework |-> << >>]

FullEducation ==
    [school |-> <<"R","&","D"," ","U","n","i","v">>, degree |-> <<"B","S">>, major |-> <<"C","S">>, grad |-> <<"2","0","2","6">>,
     gpa |-> <<"3",".","9">>, coursework |-> <<<<"A","l","g","o">>, <<" ">>, <<"C","#">>>>]

FieldTexts == {<<" ">>, <<"\t">>, <<"M","I","T">>, <<"A","&","M">>}

\* One field set, the others left at their defaults.
EducationEntries ==
    {BlankEducation, FullEducation}
    \cup {[BlankEducation EXCEPT ![field] = text] :
              field \in {"school", "degree", "major", "grad"}, text \in FieldTexts}
    \cup {[BlankEducation EXCEPT !.gpa = gpa] : gpa \in {<<" ">>, <<"3",".","2">>, <<"3",".","5">>, <<"P","a","s","s">>, <<"A","_","1">>}}
    \cup {[BlankEducation EXCEPT !.coursework = coursework] :
              coursework \in {<<<<" ">>>>, <<<<"A","l","g","o">>, <<" ">>, <<"C","#">>>>}}

EducationLists ==
    {<< >>} \cup {<<edu>> : edu \in EducationEntries}
    \cup {<<edu, FullEducation>> : edu \in {BlankEducation, FullEducation}}

AwardLists == {<< >>, <<<<" ">>>>, <<<<"P","r","i","z","e">>>>, <<<<"A","&","B">>, << >>, <<"C","u","p">>>>}

RenderRequests ==
    {[op |-> "escape", text |-> text] : text \in EscapeTexts}
    \cup {[op |-> "gpa", gpa |-> gpa] : gpa \in GpaTexts}
    \cup {[op |-> "render", resume |-> [education |-> education, awards |-> awards]] :
              education \in EducationLists, awards \in AwardLists}

RenderInit ==
    /\ objects = << >>
    /\ api_key \in {TRUE}
    /\ request \in RenderRequests
    /\ response = [none |-> TRUE]
    /\ pipeline = NotInvoked

EscapeLatex ==
    /\ request.op = "escape"
    /\ response = [none |-> TRUE]
    /\ response' = [escaped |-> escape_latex(request.text)]
    /\ UNCHANGED <<objects, api_key, request, pipeline>>

GpaShouldShow ==
    /\ request.op = "gpa"
    /\ response = [none |-> TRUE]
    /\ response' = [show |-> gpa_should_show(request.gpa)]
    /\ UNCHANGED <<objects, api_key, request, pipeline>>

RenderSections ==
    /\ request.op = "render"
    /\ response = [none |-> TRUE]
    /\ response' = [education |-> render_education(request.resume),
                    awards |-> render_awards(request.resume)]
    /\ UNCHANGED <<objects, api_key, request, pipeline>>

RenderNext == EscapeLatex \/ GpaShouldShow \/ RenderSections

SpecRender == RenderInit /\ [][RenderNext]_vars

BlankHeader ==
    [name |-> << >>, email |-> << >>, phone |-> << >>, linkedin |-> << >>, github |-> << >>,
     portfolio |-> << >>, location |-> << >>]

FullHeader ==
    [name |-> <<"A","l"," ","R","o","e">>, email |-> <<"a","l","@","x",".","i","o">>, phone |-> <<"5","5","5">>, linkedin |-> <<"x",".","i","o","/","a","l">>,
     github |-> <<"h","t","t","p","s",":","/","/","g",".","i","o","/","a","l">>, portfolio |-> <<"h","t","t","p",":","/","/","a","l",".","i","o">>, location |-> <<"N","Y">>]

HeaderTexts == {<<"R","&","D">>, <<"a","_","b","@","x",".","i","o">>, <<"x",".","i","o","/","a","_","b">>, <<"h","t","t","p","s",":","/","/","x",".","i","o","/","~","a","#","b">>, <<"5","0","%">>}

Headers ==
    {BlankHeader, FullHeader}
    \cup {[BlankHeader EXCEPT ![field] = text] :
              field \in DOMAIN BlankHeader, text \in HeaderTexts}

BlankProject ==
    [name |-> << >>, link |-> << >>, stack |-> << >>, start |-> << >>, end |-> << >>,
     bullets |-> << >>]

FullProject ==
    [name |-> <<"C","#"," ","t","o","o","l">>, link |-> <<"g",".","i","o","/","a","_","b">>, stack |-> <<<<"C","#">>, <<" ">>>>, start |-> <<"2","0","2","4">>,
     end |-> <<"2","0","2","5">>, bullets |-> <<<<"C","u","t"," ","c","o","s","t"," ","5","%">>, << >>>>]

Projects ==
    {BlankProject, FullProject}
    \cup {[BlankProject EXCEPT ![field] = text] :
              field \in {"name", "link", "start", "end"}, text \in HeaderTexts}
    \cup {[BlankProject EXCEPT ![field] = items] :
              field \in {"stack", "bullets"}, items \in {<<<<" ">>>>, <<<<"R","&","D">>, <<"a","_","b">>>>}}

ProjectLists ==
    {<< >>} \cup {<<project>> : project \in Projects} \cup {<<FullProject, FullProject>>}

HeaderRequests ==
    {[op |-> "header", resume |-> [header |-> header]] : header \in Headers}
    \cup {[op |-> "projects", resume |-> [projects |-> projects]] : projects \in ProjectLists}

HeaderInit ==
    /\ objects = << >>
    /\ api_key \in {TRUE}
    /\ request \in HeaderRequests
    /\ response = [none |-> TRUE]
    /\ pipeline = NotInvoked

RenderHeader ==
    /\ request.op = "header"
    /\ response = [none |-> TRUE]
    /\ response' = [header |-> render_header(request.resume)]
    /\ UNCHANGED <<objects, api_key, request, pipeline>>

RenderProjects ==
    /\ request.op = "projects"
    /\ response = [none |-> TRUE]
    /\ response' = [projects |-> render_projects(request.resume)]
    /\ UNCHANGED <<objects, api_key, request, pipeline>>

HeaderNext == RenderHeader \/ RenderProjects

SpecHeader == HeaderInit /\ [][HeaderNext]_vars

\* ------------------------------------------------------- two documents

\* The number of turns the histories of the two documents may hold together.
MaxSharedTurns == 2

TwoDocIds == {"d1", "d2"}

\* template.tex as the export finds it: absent, or a text with placeholders.
Templates == {None, <<"{","{","H","E","A","D","E","R","_","B","L","O","C","K","}","}","\n","{","{","A",
          "W","A","R","D","S","_","B","L","O","C","K","}","}","\n">>}

\* Two documents, each one parsed or with a proposal pending.
TwoDocStores ==
    {one @@ two : one \in {ParsedStore("d1"), ProposedStore("d1")},
                  two \in {ParsedStore("d2"), ProposedStore("d2")}}

\* A confirmation and a request for an edit; a backend answer that parses.
TwoDocMessages == {<<"y","e","s">>, <<"b","u","l","l","e","t","s">>}

TwoDocResults == {Returned(TEXT_FENCED_EDIT)}

TwoDocInit ==
    /\ objects \in TwoDocStores
    /\ api_key \in {TRUE}
    /\ request = [op |-> "none"]
    /\ response = [none |-> TRUE]
    /\ pipeline = NotInvoked

\* The two histories hold at most MaxSharedTurns turns together.
SharedTurnLeft(store) ==
    Len(load_history(store, "d1")) + Len(load_history(store, "d2")) < 2 * MaxSharedTurns

ChatDocument(doc_id) ==
    \E message \in TwoDocMessages, first \in TwoDocResults :
        /\ SharedTurnLeft(objects)
        /\ request' = [op |-> "chat", doc_id |-> doc_id, message |-> message]
        /\ Finish(chat_resume(objects, doc_id, message, api_key, first, first))

TailorDocument(doc_id) ==
    \E first \in TwoDocResults :
        /\ SharedTurnLeft(objects)
        /\ request' = [op |-> "tailor", doc_id |-> doc_id, message |-> <<"D","a","t","a"," ","e","n","g","i","n","e","e","r">>]
        /\ Finish(tailor_resume_for_job(objects, doc_id, <<"D","a","t","a"," ","e","n","g","i","n","e","e","r">>, api_key,
                                        first, first))

ExportResume(doc_id) ==
    \E template_tex \in Templates :
        /\ request' = [op |-> "export", doc_id |-> doc_id, message |-> << >>]
        /\ Finish(export_resume(objects, doc_id, template_tex))

TwoDocNext ==
    \E doc_id \in TwoDocIds :
        \/ ChatDocument(doc_id)
        \/ TailorDocument(doc_id)
        \/ ExportResume(doc_id)

SpecTwoDocs == TwoDocInit /\ [][TwoDocNext]_vars

\* ------------------------------------- two chat requests for one document

\* The keys a chat request has written when it answers with this response.
written_keys_without_history(resp, doc_id) ==
    IF resp = Raised THEN {}
    ELSE IF resp.status = "applied" THEN {draft_key(doc_id), pending_key(doc_id)}
    ELSE IF resp.status \in {"rejected", "pending"} THEN {pending_key(doc_id)}
    ELSE {}

written_keys(resp, doc_id) ==
    IF resp = Raised THEN {}
    ELSE IF resp.status = "applied"
        THEN {draft_key(doc_id), pending_key(doc_id), history_key(doc_id)}
    ELSE IF resp.status \in {"rejected", "pending"}
        THEN {pending_key(doc_id), history_key(doc_id)}
    ELSE {history_key(doc_id)}

\* The puts of a request on the store as it is when the request ends: the values
\* are those the handler computed from what it read.
write_back(store, handled, keys) ==
    [key \in (DOMAIN store) \cup keys |->
        IF key \in keys THEN handled.store[key] ELSE store[key]]

Clients == {1, 2}

ConcurrentMessages == {<<"y","e","s">>, <<" ","N","o"," ">>, <<"b","u","l","l","e","t","s">>}

ConcurrentResults == {Returned(TEXT_FENCED_EDIT), Returned(TEXT_CLARIFY)}

\* Two requests for document d1 are in flight: started is the store at the start,
\* reads what each request has read, log the reads and writes in their order.
ConcurrentInit ==
    /\ objects \in TurnStores("d1")
    /\ api_key \in {TRUE}
    /\ \E first \in ConcurrentMessages, second \in ConcurrentMessages :
        request = [op |-> "concurrent", doc_id |-> "d1", started |-> objects,
                   messages |-> <<first, second>>, reads |-> <<<< >>, << >>>>,
                   log |-> << >>]
    /\ response = [none |-> TRUE]
    /\ pipeline = NotInvoked

HasRead(client) == \E i \in DOMAIN request.log : request.log[i] = <<"read", client>>

HasWritten(client) == \E i \in DOMAIN request.log : request.log[i] = <<"write", client>>

\* The start of chat_resume: the request reads the history, the pending edit and
\* the resume of its document.
ReadStore(client) ==
    /\ request.op = "concurrent"
    /\ ~HasRead(client)
    /\ request' = [request EXCEPT !.reads[client] = objects,
                                  !.log = Append(@, <<"read", client>>)]
    /\ UNCHANGED <<objects, api_key, response, pipeline>>

\* The end of chat_resume: the request writes what it made of its reads.
WriteBack(client) ==
    \E first \in ConcurrentResults :
        LET handled == chat_resume(request.reads[client], request.doc_id,
                                   request.messages[client], api_key, first, first)
        IN  /\ request.op = "concurrent"
            /\ HasRead(client)
            /\ ~HasWritten(client)
            /\ objects' = write_back(objects, handled,
                                     written_keys(handled.response, request.doc_id))
            /\ response' = handled.response
            /\ pipeline' = handled.pipeline
            /\ request' = [request EXCEPT !.log = Append(@, <<"write", client>>)]
            /\ UNCHANGED api_key

ConcurrentNext == \E client \in Clients : ReadStore(client) \/ WriteBack(client)

SpecConcurrent == ConcurrentInit /\ [][ConcurrentNext]_vars

\* ------------------------------------------- the documents that are committed

CommitMessages == {<<"y","e","s">>, <<"b","u","l","l","e","t","s">>}

CommitResults == {Returned(TEXT_GROUPS), Returned(TEXT_NULL_FIELD), Returned(TEXT_FENCED_EDIT)}

\* A resume has been uploaded as d1.
CommitInit ==
    /\ \E raw \in CommitRawTexts : objects = upload_resume(<< >>, "d1", <<"c","v",".","p","d","f">>, raw).store
    /\ api_key \in {TRUE}
    /\ request = [op |-> "none"]
    /\ response = [none |-> TRUE]
    /\ pipeline = NotInvoked

\* POST /api/resume/d1/parse, the backend answering with result; the resume is
\* parsed once.
ParseDocument ==
    \E result \in CommitParseResults, email \in FoundEmails :
        /\ ~has_object(objects, parsed_key("d1"))
        /\ request' = [op |-> "parse", doc_id |-> "d1", message |-> result]
        /\ Finish(parse_resume(objects, "d1",
                               parse_resume_text(get_object_bytes(objects, upload_text_key("d1")),
                                                 email, << >>, api_key, result)))

\* POST /api/resume/d1/chat: a proposal is asked for, or the pending one affirmed.
ChatCommit ==
    \E message \in CommitMessages, first \in CommitResults :
        /\ Len(load_history(objects, "d1")) < 2 * MaxTurns
        /\ request' = [op |-> "chat", doc_id |-> "d1", message |-> message]
        /\ Finish(chat_resume(objects, "d1", message, api_key, first, first))

CommitNext == ParseDocument \/ ChatCommit

SpecCommit == CommitInit /\ [][CommitNext]_vars

\* ------------------------------------------------- terse editing requests

NormalizeResults == {Returned(TEXT_FENCED_EDIT), Returned(TEXT_CLARIFY), BackendFailure}

NormalizeInit ==
    /\ objects \in TurnStores("d1")
    /\ api_key \in BOOLEAN
    /\ request = [op |-> "none"]
    /\ response = [none |-> TRUE]
    /\ pipeline = NotInvoked

\* POST /api/resume/d1/chat with an editing request, the one request of a run.
ChatRequest ==
    \E message \in NormalizeMessages, first \in NormalizeResults :
        /\ request.op = "none"
        /\ request' = [op |-> "chat", doc_id |-> "d1", message |-> message]
        /\ Finish(chat_resume(objects, "d1", message, api_key, first, first))

SpecNormalize == NormalizeInit /\ [][ChatRequest]_vars

\* ------------------------------------------------------ long conversations

MaxStoredPairs == 7

\* The content of the i-th stored turn: each turn has a text of its own.
TurnContent(i) == [j \in 1..i |-> "x"]

\* A stored history of pairs user and assistant turns; the turn at blank, if any,
\* has a content of blanks only.
StoredHistory(pairs, blank) ==
    [i \in 1..(2 * pairs) |->
        Turn(IF i % 2 = 1 THEN <<"u","s","e","r">> ELSE <<"a","s","s","i","s","t","a","n","t">>,
             IF i = blank THEN <<" ">> ELSE TurnContent(i))]

WindowMessages == {<<"b","u","l","l","e","t","s">>, <<"s","h","o","r","t","e","n"," ","t","h","e"," ","s","u","m","m","a","r","y">>}

WindowResults == {Returned(TEXT_FENCED_EDIT), Returned(TEXT_UNBALANCED), BackendFailure}

WindowInit ==
    /\ \E store \in {ParsedStore("d1"), ProposedStore("d1")}, pairs \in 0..MaxStoredPairs :
        \E blank \in {0, 2 * pairs, 2 * pairs - 11} \cap 0..(2 * pairs) :
            objects = put_object(store, history_key("d1"), StoredHistory(pairs, blank))
    /\ api_key \in BOOLEAN
    /\ request = [op |-> "none"]
    /\ response = [none |-> TRUE]
    /\ pipeline = NotInvoked

\* POST /api/resume/d1/chat after a conversation, the one request of a run.
ChatAfterHistory ==
    \E message \in WindowMessages, first \in WindowResults :
        /\ request.op = "none"
        /\ request' = [op |-> "chat", doc_id |-> "d1", message |-> message]
        /\ Finish(chat_resume(objects, "d1", message, api_key, first, first))

SpecWindow == WindowInit /\ [][ChatAfterHistory]_vars

\* ------------------------------------------------------ template substitution

BlankResume ==
    [header |-> BlankHeader, education |-> << >>, experience |-> << >>, projects |-> << >>,
     skills |-> [languages |-> << >>, frameworks |-> << >>, tools |-> << >>,
                 concepts |-> << >>],
     leadership |-> << >>, awards |-> << >>]

\* Names, addresses, links and awards: plain ones, and ones written like a
\* placeholder of the template.
TemplateNames == {<<"A","l"," ","R","o","e">>, <<"{","{","A","W","A","R","D","S","_","B","L","O","C","K","}","}">>}

TemplateEmails == {<< >>, <<"a","l","@","x",".","i","o">>, <<"{","{","A","W","A","R","D","S","_","B","L","O","C","K","}","}">>, <<"{","{","H","E","A","D","E","R","_","B","L","O","C","K","}","}">>}

TemplateProjects ==
    {<< >>, <<[BlankProject EXCEPT !.name = <<"T","o","o","l">>, !.link = <<"{","{","S","K","I","L","L","S","_","B","L","O","C","K","}","}">>]>>}

TemplateAwards == {<< >>, <<<<"P","r","i","z","e">>>>, <<<<"{","{","H","E","A","D","E","R","_","B","L","O","C","K","}","}">>>>}

TemplateResumes ==
    {[BlankResume EXCEPT !.header.name = name, !.header.email = email,
                         !.projects = projects, !.awards = awards] :
        name \in TemplateNames, email \in TemplateEmails,
        projects \in TemplateProjects, awards \in TemplateAwards}

\* Templates: placeholders once and twice, a token that is no placeholder, no
\* placeholder at all, and a placeholder wrapped around another one.
TemplateTexts ==
    {<<"{","{","H","E","A","D","E","R","_","B","L","O","C","K","}","}","\n","{","{","A","W",
       "A","R","D","S","_","B","L","O","C","K","}","}","\n">>,
     <<"x","{","{","A","W","A","R","D","S","_","B","L","O","C","K","}","}","{","{","H","E",
       "A","D","E","R","_","B","L","O","C","K","}","}","{","{","A","W","A","R","D","S","_",
       "B","L","O","C","K","}","}"," ","{","{","N","O","P","E","}","}"," ","{","H","E","A",
       "D","E","R","_","B","L","O","C","K","}">>,
     <<"{","{","P","R","O","J","E","C","T","S","_","B","L","O","C","K","}","}","-","-","{",
       "{","S","K","I","L","L","S","_","B","L","O","C","K","}","}">>,
     <<"\\","d","o","c","u","m","e","n","t","c","l","a","s","s","{","a","r","t","i","c","l",
       "e","}">>,
     <<"{","{","{","{","S","K","I","L","L","S","_","B","L","O","C","K","}","}","A","W","A",
       "R","D","S","_","B","L","O","C","K","}","}">>}

TemplateInit ==
    /\ objects = << >>
    /\ api_key \in {TRUE}
    /\ \E resume \in TemplateResumes, template \in TemplateTexts :
        request = [op |-> "template", resume |-> resume, template |-> template]
    /\ response = [none |-> TRUE]
    /\ pipeline = NotInvoked

RenderTemplate ==
    /\ request.op = "template"
    /\ response = [none |-> TRUE]
    /\ response' = [rendered |-> render_resume_to_latex(request.resume, request.template)]
    /\ UNCHANGED <<objects, api_key, request, pipeline>>

SpecTemplate == TemplateInit /\ [][RenderTemplate]_vars

\* ------------------------------------------------------------- bullet lists

BulletTexts == {<< >>, <<" ">>, <<"\t","\n">>, <<"L","e","d"," ","t","e","a","m">>, <<" ","a","_","b"," ">>, <<"5","0","%">>}

BulletLists ==
    {<< >>} \cup {<<one>> : one \in BulletTexts}
    \cup {<<one, two>> : one \in BulletTexts, two \in BulletTexts}
    \cup {<<<<"L","e","d"," ","t","e","a","m">>, one, two>> : one \in BulletTexts, two \in BulletTexts}
    \cup {<<one, <<" ">>, two>> : one \in BulletTexts, two \in BulletTexts}

BlankRole ==
    [company |-> << >>, location |-> << >>, role |-> << >>, start |-> << >>, end |-> << >>,
     bullets |-> << >>]

\* Roles with and without a company and a title, with bullets of which none, some
\* or all are blank.
ItemizeRoles ==
    {[BlankRole EXCEPT !.company = company, !.role = role, !.bullets = bullets] :
        company \in {<< >>, <<"A","&","B">>}, role \in {<< >>, <<"D","e","v">>},
        bullets \in {<< >>, <<<<" ">>>>, <<<< >>, <<"\t","\n">>>>, <<<<" ">>, <<"L","e","d"," ","t","e","a","m">>, << >>, <<"5","0","%">>>>}}

ItemizeRequests ==
    {[op |-> "itemize", items |-> items] : items \in BulletLists}
    \cup {[op |-> "experience", resume |-> [experience |-> <<role>>]] : role \in ItemizeRoles}
    \cup {[op |-> "experience", resume |-> [experience |-> <<role, [BlankRole EXCEPT !.role = <<"Q","A">>]>>]] :
              role \in ItemizeRoles}

ItemizeInit ==
    /\ objects = << >>
    /\ api_key \in {TRUE}
    /\ request \in ItemizeRequests
    /\ response = [none |-> TRUE]
    /\ pipeline = NotInvoked

FormatItemize ==
    /\ request.op = "itemize"
    /\ response = [none |-> TRUE]
    /\ response' = [text |-> format_itemize(request.items)]
    /\ UNCHANGED <<objects, api_key, request, pipeline>>

RenderExperience ==
    /\ request.op = "experience"
    /\ response = [none |-> TRUE]
    /\ response' = [text |-> render_experience(request.resume)]
    /\ UNCHANGED <<objects, api_key, request, pipeline>>

ItemizeNext == FormatItemize \/ RenderExperience

SpecItemize == ItemizeInit /\ [][ItemizeNext]_vars

\* ------------------------------------- the document a request starts from

\* A confirmation, a request for an edit and a message that asks for no change.
BaseMessages == {<<"y","e","s">>, <<"b","u","l","l","e","t","s">>, <<"l","o","o","k","s"," ","g","o","o","d">>}

BaseResults == {Returned(TEXT_FENCED_EDIT)}

\* What the first parse stored: the document of ParsedStore, or the seed of a
\* resume whose backend call failed.
EarlierOutputs ==
    ParseOutputs \cup {parse_resume_text(<<"\n"," "," ","B","o"," ","L","i"," ","\n">>, << >>, << >>, TRUE, BackendFailure)}

\* What a later parse of the same upload returns: the backend answers differently,
\* and the document stored is none of the earlier ones.
ReparseOutputs ==
    {data \in CommitOutputs :
        \A earlier \in EarlierOutputs : model_validate(data).val # model_validate(earlier).val}

\* A document that is parsed, has a proposal pending, applied or rejected, or is
\* tailored; without a draft, also with the other first parse.
BaseStores ==
    TurnStores("d1") \cup
    {parse_resume(store, "d1", data).store :
        store \in {s \in TurnStores("d1") : ~has_object(s, draft_key("d1"))},
        data \in EarlierOutputs}

BaseInit ==
    /\ objects \in BaseStores
    /\ api_key \in {TRUE}
    /\ request = [op |-> "none"]
    /\ response = [none |-> TRUE]
    /\ pipeline = NotInvoked

\* POST /api/resume/d1/parse once more, after an edit has been applied.
ParseAgain ==
    \E data \in ReparseOutputs :
        /\ has_object(objects, draft_key("d1"))
        /\ request' = [op |-> "parse", doc_id |-> "d1", message |-> << >>]
        /\ Finish(parse_resume(objects, "d1", data))

ChatFromBase ==
    \E message \in BaseMessages, first \in BaseResults :
        /\ Len(load_history(objects, "d1")) < 2 * MaxTurns
        /\ request' = [op |-> "chat", doc_id |-> "d1", message |-> message]
        /\ Finish(chat_resume(objects, "d1", message, api_key, first, first))

TailorFromBase ==
    \E first \in BaseResults :
        /\ request' = [op |-> "tailor", doc_id |-> "d1", message |-> <<"D","a","t","a"," ","e","n","g","i","n","e","e","r">>]
        /\ Finish(tailor_resume_for_job(objects, "d1", <<"D","a","t","a"," ","e","n","g","i","n","e","e","r">>, api_key,
                                        first, first))

ExportFromBase ==
    \E template_tex \in Templates :
        /\ request' = [op |-> "export", doc_id |-> "d1", message |-> << >>]
        /\ Finish(export_resume(objects, "d1", template_tex))

BaseNext == ParseAgain \/ ChatFromBase \/ TailorFromBase \/ ExportFromBase

SpecBase == BaseInit /\ [][BaseNext]_vars

\* ------------------------------------------ payloads without optional fields

DefaultMessages == {<<"y","e","s">>, <<"b","u","l","l","e","t","s">>, <<" ","N","o"," ">>}

\* Payloads with a message and a resume, with and without needs_confirmation and
\* edits_summary.
DefaultResults ==
    {Returned(text) : text \in DefaultTexts \cup {TEXT_NO_SUMMARY, TEXT_FENCED_EDIT}}

DefaultInit ==
    /\ objects \in TurnStores("d1")
    /\ api_key \in {TRUE}
    /\ request = [op |-> "none"]
    /\ response = [none |-> TRUE]
    /\ pipeline = NotInvoked

\* POST /api/resume/d1/chat, the backend answering with one of the payloads.
ChatWithDefaults ==
    \E message \in DefaultMessages, first \in DefaultResults :
        /\ Len(load_history(objects, "d1")) < 2 * MaxTurns
        /\ request' = [op |-> "chat", doc_id |-> "d1", message |-> message]
        /\ Finish(chat_resume(objects, "d1", message, api_key, first, BackendFailure))

SpecDefaults == DefaultInit /\ [][ChatWithDefaults]_vars

\* ------------------------------------------------------------- properties

\* The stored values of a document, None where the key is absent.
Draft(store, d) == load_optional_json(store, draft_key(d))

Pending(store, d) == load_optional_json(store, pending_key(d))

\* The step is a chat request for document d.
ChatStep(d) == request'.op = "chat" /\ request'.doc_id = d

\* The chat request finds a resume to load.
Loadable(d) == has_object(objects, source_key(objects, d))

\* The last request was a chat request and its handler returned a response.
ChatReturned == request.op = "chat" /\ response # Raised

\* C1: a chat request that finds a pending edit with status "pending" and whose
\* message matches the affirmative pattern writes the Resume validated from the
\* pending edit's resume as the draft, stores the pending edit with status
\* "applied" and nothing else changed, answers needs_confirmation = FALSE with
\* status "applied", and neither invokes the pipeline nor calls the backend.
C1_AffirmedEditIsCommitted ==
    [][\A d \in DocIds :
        (/\ ChatStep(d)
         /\ Loadable(d)
         /\ pending_is_active(Pending(objects, d))
         /\ is_affirmative(Strip(request'.message)))
        => /\ Draft(objects', d) = Validate(Resume, Pending(objects, d).resume).val
           /\ Pending(objects', d) = [Pending(objects, d) EXCEPT !.status = "applied"]
           /\ response' # Raised
           /\ response'.needs_confirmation = FALSE
           /\ response'.status = "applied"
           /\ ~pipeline'.invoked
           /\ pipeline'.calls = << >>]_vars

\* A chat turn applied a pending edit, and the draft it wrote differs from the
\* parsed resume.
C1_Witness ==
    /\ ChatReturned
    /\ response.status = "applied"
    /\ Draft(objects, request.doc_id) # None
    /\ Draft(objects, request.doc_id) # get_object_bytes(objects, parsed_key(request.doc_id))
    /\ Pending(objects, request.doc_id).status = "applied"

\* C2: a chat request changes the draft of a document only when it finds the
\* document's pending edit with status "pending" and its message is affirmative,
\* and the new draft is the Resume validated from that pending edit's resume; the
\* parsed resume is changed by no chat request.
C2_DraftChangesOnlyOnConfirmation ==
    [][\A d \in DocIds :
        /\ (request'.op = "chat" /\ Draft(objects', d) # Draft(objects, d))
           => /\ request'.doc_id = d
              /\ pending_is_active(Pending(objects, d))
              /\ is_affirmative(Strip(request'.message))
              /\ Draft(objects', d) = Validate(Resume, Pending(objects, d).resume).val
        /\ request'.op = "chat"
           => load_optional_json(objects', parsed_key(d))
                = load_optional_json(objects, parsed_key(d))]_vars

\* A chat turn stored a new proposal as the pending edit next to a draft that an
\* earlier confirmation wrote, and the draft is not the proposed resume.
C2_Witness ==
    /\ ChatReturned
    /\ response.status = "pending"
    /\ Draft(objects, request.doc_id) # None
    /\ Draft(objects, request.doc_id) # Validate(Resume, response.proposed_resume).val

\* C3: a chat request that finds a pending edit with status "pending" and whose
\* message matches the negative and not the affirmative pattern stores the
\* pending edit with status "rejected" and its resume and edits_summary as they
\* were, leaves the draft as it was, invokes no pipeline, makes no backend call,
\* and answers needs_confirmation = FALSE.
C3_RejectionKeepsDocument ==
    [][\A d \in DocIds :
        (/\ ChatStep(d)
         /\ Loadable(d)
         /\ pending_is_active(Pending(objects, d))
         /\ ~is_affirmative(Strip(request'.message))
         /\ is_negative(Strip(request'.message)))
        => /\ Pending(objects', d) = [Pending(objects, d) EXCEPT !.status = "rejected"]
           /\ Pending(objects', d).resume = Pending(objects, d).resume
           /\ Pending(objects', d).edits_summary = Pending(objects, d).edits_summary
           /\ Draft(objects', d) = Draft(objects, d)
           /\ ~pipeline'.invoked
           /\ pipeline'.calls = << >>
           /\ response' # Raised
           /\ response'.needs_confirmation = FALSE]_vars

\* A chat turn rejected a pending edit.
C3_Witness ==
    /\ ChatReturned
    /\ response.status = "rejected"
    /\ is_negative(Strip(request.message))
    /\ Pending(objects, request.doc_id).status = "rejected"

\* C4: a chat request whose message matches the no-change pattern and that finds
\* no pending edit with status "pending" invokes no pipeline and makes no backend
\* call, leaves the draft and the stored pending edit as they were, and answers
\* needs_confirmation = FALSE with an empty edits_summary.
C4_NoChangeTouchesNothing ==
    [][\A d \in DocIds :
        (/\ ChatStep(d)
         /\ Loadable(d)
         /\ ~pending_is_active(Pending(objects, d))
         /\ is_no_change(Strip(request'.message)))
        => /\ ~pipeline'.invoked
           /\ pipeline'.calls = << >>
           /\ Draft(objects', d) = Draft(objects, d)
           /\ Pending(objects', d) = Pending(objects, d)
           /\ response' # Raised
           /\ response'.needs_confirmation = FALSE
           /\ response'.edits_summary = << >>]_vars

\* A no-change message was acknowledged while an applied or rejected edit is stored.
C4_Witness ==
    /\ ChatReturned
    /\ is_no_change(Strip(request.message))
    /\ response.assistant_message = NO_CHANGE_MESSAGE
    /\ Pending(objects, request.doc_id) # None

\* propose_chat_edits has been invoked.
ChatPipeline == pipeline.invoked /\ pipeline.name = "propose_chat_edits"

\* The n-th backend call was made and returned text.
CallReturned(n) == Len(pipeline.calls) >= n /\ pipeline.calls[n].result.ok

\* The n-th backend call was made and failed instead of returning text.
CallFailed(n) == Len(pipeline.calls) >= n /\ ~pipeline.calls[n].result.ok

\* The text the n-th backend call returned.
TextOf(n) == pipeline.calls[n].result.text

\* The n-th backend call returned a text that extracts and validates.
CallParsed(n) == CallReturned(n) /\ ParsedResponse[TextOf(n)].ok

\* The n-th backend call returned a text that fails extraction or validation.
CallUnparsed(n) == CallReturned(n) /\ ~ParsedResponse[TextOf(n)].ok

\* C5: propose_chat_edits never makes more than two backend calls; when the first
\* response extracts and validates it makes exactly one; when the first response
\* does not, it makes exactly one further call, the repair call, whose prompt
\* embeds the first call's prompt and its output and whose temperature is 0.0; an
\* unbalanced-brace first response is such a case.
C5_OneCallOrOneRepair ==
    ChatPipeline =>
        /\ Len(pipeline.calls) <= 2
        /\ CallParsed(1) => Len(pipeline.calls) = 1
        /\ CallUnparsed(1) =>
            /\ Len(pipeline.calls) = 2
            /\ pipeline.calls[2].contents
                 = retry_prompt(TextOf(1), pipeline.calls[1].contents)
            /\ pipeline.calls[2].temperature = "0.0"
        /\ (CallReturned(1) /\ TextOf(1) = TEXT_UNBALANCED) => Len(pipeline.calls) = 2

\* An unbalanced-brace first response was followed by a repair call that returned.
C5_Witness ==
    /\ ChatPipeline
    /\ Len(pipeline.calls) = 2
    /\ TextOf(1) = TEXT_UNBALANCED
    /\ ~extract_json_object(TEXT_UNBALANCED).ok
    /\ CallReturned(2)

\* C6: when the first response and the repair response both fail extraction or
\* validation, propose_chat_edits returns the fallback proposal: the fixed
\* assistant_message, an empty edits_summary, the resume passed in as
\* proposed_resume, and needs_confirmation = FALSE.
C6_SafeFallback ==
    (ChatPipeline /\ CallUnparsed(1) /\ CallUnparsed(2)) =>
        /\ ~pipeline.raised
        /\ pipeline.proposal.assistant_message = CHAT_FALLBACK_MESSAGE
        /\ pipeline.proposal.edits_summary = << >>
        /\ pipeline.proposal.proposed_resume = pipeline.resume
        /\ pipeline.proposal.needs_confirmation = FALSE

\* A schema-invalid first response and an empty repair response ended in the
\* fallback proposal.
C6_Witness ==
    /\ ChatPipeline
    /\ CallReturned(1) /\ TextOf(1) = TEXT_NOT_A_PROPOSAL
    /\ CallReturned(2) /\ TextOf(2) = TEXT_EMPTY
    /\ pipeline.proposal = chat_fallback(pipeline.resume)

\* A proposal the caller can use: its fields have the types of LLMEditProposal and
\* its proposed_resume validates as a Resume.
Usable(proposal) ==
    /\ proposal.assistant_message \in Seq(STRING)
    /\ proposal.edits_summary \in Seq(Seq(STRING))
    /\ proposal.needs_confirmation \in BOOLEAN
    /\ Validate(Resume, proposal.proposed_resume).ok

\* C7: whatever texts the backend calls of propose_chat_edits return (empty,
\* non-JSON, unterminated, schema-invalid or valid), propose_chat_edits does not
\* raise and returns a usable proposal.
C7_NeverRaisesOnText ==
    (/\ ChatPipeline
     /\ pipeline.calls # << >>
     /\ \A n \in 1..Len(pipeline.calls) : CallReturned(n))
    => ~pipeline.raised /\ Usable(pipeline.proposal)

\* A brace-free first response and a repair response whose proposed_resume is no
\* Resume were turned into a proposal.
C7_Witness ==
    /\ ChatPipeline
    /\ CallReturned(1) /\ TextOf(1) = TEXT_PROSE
    /\ CallReturned(2) /\ TextOf(2) = TEXT_BAD_RESUME
    /\ ~pipeline.raised

\* C8: a first backend call that fails instead of returning text is followed by
\* the repair call, and a failed repair call yields the fallback proposal, not
\* an exception out of propose_chat_edits.
C8_TimeoutStillRetries ==
    ChatPipeline =>
        /\ CallFailed(1) => Len(pipeline.calls) = 2
        /\ CallFailed(2) =>
            ~pipeline.raised /\ pipeline.proposal = chat_fallback(pipeline.resume)

\* What the code does instead: a backend call that fails ends propose_chat_edits
\* with the exception, and no call follows it.
C8_FailedCallRaises ==
    ChatPipeline =>
        \A n \in 1..Len(pipeline.calls) :
            CallFailed(n) => pipeline.raised /\ Len(pipeline.calls) = n

\* The repair call failed after a first response that did not parse.
C8_Witness ==
    /\ ChatPipeline
    /\ CallUnparsed(1)
    /\ CallFailed(2)
    /\ pipeline.raised

\* C9: a chat request whose propose_chat_edits raises still returns a response:
\* the history is extended by the user message and the retry-guidance message, the
\* draft, the parsed resume and the stored pending edit are as they were, and the
\* response has needs_confirmation = FALSE.
C9_PipelineFailureGivesGuidance ==
    [][\A d \in DocIds :
        (ChatStep(d) /\ pipeline'.invoked /\ pipeline'.raised)
        => /\ response' # Raised
           /\ response'.assistant_message = RETRY_GUIDANCE_MESSAGE
           /\ response'.needs_confirmation = FALSE
           /\ load_history(objects', d)
                = extend_history(load_history(objects, d), Strip(request'.message),
                                 RETRY_GUIDANCE_MESSAGE)
           /\ Draft(objects', d) = Draft(objects, d)
           /\ load_optional_json(objects', parsed_key(d))
                = load_optional_json(objects, parsed_key(d))
           /\ Pending(objects', d) = Pending(objects, d)]_vars

\* A backend call of a chat turn failed and the turn answered with the guidance.
C9_Witness ==
    /\ ChatReturned
    /\ pipeline.invoked /\ pipeline.raised
    /\ pipeline.calls # << >>
    /\ response.assistant_message = RETRY_GUIDANCE_MESSAGE

\* C10: a chat request that returns a response stores the history it found
\* extended by exactly two entries, the user's stripped message and then the
\* assistant message of the response; and every step leaves the stored history of
\* every document a prefix of the new one.
C10_HistoryGrowsByOneTurn ==
    [][\A d \in DocIds :
        /\ (ChatStep(d) /\ response' # Raised)
           => load_history(objects', d)
                = load_history(objects, d)
                    \o <<Turn(<<"u","s","e","r">>, Strip(request'.message)),
                         Turn(<<"a","s","s","i","s","t","a","n","t">>, response'.assistant_message)>>
        /\ Len(load_history(objects, d)) <= Len(load_history(objects', d))
        /\ SubSeq(load_history(objects', d), 1, Len(load_history(objects, d)))
             = load_history(objects, d)]_vars

\* Two chat turns are stored, the second one answering a confirmation.
C10_Witness ==
    /\ ChatReturned
    /\ Len(load_history(objects, request.doc_id)) = 4
    /\ response.status = "applied"
    /\ load_history(objects, request.doc_id)[4].content = APPLIED_MESSAGE

\* The pending edit the chat request finds is live.
PendingActive(d) == pending_is_active(Pending(objects, d))

\* The response of the step is the one of rule 3.
NoChangeAnswer == response' # Raised /\ response'.assistant_message = NO_CHANGE_MESSAGE

\* C11: the rules of chat_resume are tried in the order affirm, reject, no-change,
\* new request, and the first that matches decides the turn: with a live pending
\* edit an affirmative message is applied even when it is negative too; a message
\* that is negative and not affirmative is rejected even when it is a no-change; the
\* no-change answer is given only when neither of the first two rules matched; the
\* pipeline is invoked only when none of the first three matched.
C11_FirstMatchingRuleDecides ==
    [][\A d \in DocIds :
        (ChatStep(d) /\ Loadable(d)) =>
            LET msg == Strip(request'.message)
            IN  /\ (PendingActive(d) /\ is_affirmative(msg))
                   => response' # Raised /\ response'.status = "applied"
                /\ (PendingActive(d) /\ ~is_affirmative(msg) /\ is_negative(msg))
                   => response' # Raised /\ response'.status = "rejected"
                /\ NoChangeAnswer
                   => /\ ~(PendingActive(d) /\ is_affirmative(msg))
                      /\ ~(PendingActive(d) /\ is_negative(msg))
                      /\ is_no_change(msg)
                /\ (~PendingActive(d) /\ is_no_change(msg)) => NoChangeAnswer
                /\ pipeline'.invoked
                   => /\ ~(PendingActive(d) /\ is_affirmative(msg))
                      /\ ~(PendingActive(d) /\ is_negative(msg))
                      /\ ~(~PendingActive(d) /\ is_no_change(msg))]_vars

\* A message that is both affirmative and negative was applied.
C11_Witness ==
    /\ ChatReturned
    /\ is_affirmative(Strip(request.message))
    /\ is_negative(Strip(request.message))
    /\ response.status = "applied"
    /\ Pending(objects, request.doc_id).status = "applied"

\* The pending edit a proposal is stored as.
PendingOf(proposal) ==
    [status |-> "pending", resume |-> proposal.proposed_resume,
     edits_summary |-> proposal.edits_summary]

\* C12: with a live pending edit, a message that is neither affirmative nor
\* negative (a no-change message included) is a new editing request: the pipeline
\* is invoked with the resume loaded and the normalized message, the turn neither
\* applies nor rejects, the draft is as it was, and the stored pending edit is the
\* one found or the one of the new proposal, with status "pending".
C12_AmbiguousReplyIsNewRequest ==
    [][\A d \in DocIds :
        (/\ ChatStep(d)
         /\ Loadable(d)
         /\ PendingActive(d)
         /\ ~is_affirmative(Strip(request'.message))
         /\ ~is_negative(Strip(request'.message)))
        => /\ pipeline'.invoked
           /\ pipeline'.name = "propose_chat_edits"
           /\ pipeline'.message = normalize_chat_request(Strip(request'.message))
           /\ pipeline'.resume
                = Validate(Resume, get_object_bytes(objects, source_key(objects, d))).val
           /\ response' # Raised
           /\ response'.status \notin {"applied", "rejected"}
           /\ Draft(objects', d) = Draft(objects, d)
           /\ Pending(objects', d).status = "pending"
           /\ \/ Pending(objects', d) = Pending(objects, d)
              \/ /\ ~pipeline'.raised
                 /\ Pending(objects', d) = PendingOf(pipeline'.proposal)]_vars

\* A no-change message met a live pending edit and went through the pipeline, whose
\* proposal asked for no confirmation: the pending edit is still live.
C12_Witness ==
    /\ ChatReturned
    /\ is_no_change(Strip(request.message))
    /\ ~is_affirmative(Strip(request.message))
    /\ ~is_negative(Strip(request.message))
    /\ pipeline.invoked /\ ~pipeline.raised
    /\ response.status = "info"
    /\ Pending(objects, request.doc_id) # None
    /\ Pending(objects, request.doc_id).status = "pending"

\* C13: a chat request whose pipeline returns a proposal with needs_confirmation
\* leaves as the stored pending edit exactly {status: "pending", resume:
\* proposal.proposed_resume, edits_summary: proposal.edits_summary}, whatever
\* record (none, pending, applied or rejected) was stored before.
C13_NewProposalReplacesPending ==
    [][\A d \in DocIds :
        (/\ ChatStep(d)
         /\ pipeline'.invoked
         /\ ~pipeline'.raised
         /\ pipeline'.proposal.needs_confirmation)
        => /\ Pending(objects', d) = PendingOf(pipeline'.proposal)
           /\ response' # Raised
           /\ response'.status = "pending"]_vars

\* A new proposal was stored over the record of an edit applied one turn earlier.
C13_Witness ==
    /\ ChatReturned
    /\ response.status = "pending"
    /\ Len(load_history(objects, request.doc_id)) = 6
    /\ load_history(objects, request.doc_id)[4].content = APPLIED_MESSAGE
    /\ Pending(objects, request.doc_id) = PendingOf(pipeline.proposal)

\* C14: every response with needs_confirmation = TRUE, every proposal with
\* needs_confirmation = TRUE that a pipeline returns, and every stored pending edit
\* with status "pending" has a non-empty edits_summary.
C14_ConfirmationHasSummary ==
    /\ (/\ request.op \in {"chat", "tailor"}
        /\ response # Raised
        /\ "needs_confirmation" \in DOMAIN response
        /\ response.needs_confirmation)
       => response.edits_summary # << >>
    /\ (pipeline.invoked /\ ~pipeline.raised /\ pipeline.proposal.needs_confirmation)
       => pipeline.proposal.edits_summary # << >>
    /\ \A d \in DocIds :
        pending_is_active(Pending(objects, d)) => Pending(objects, d).edits_summary # << >>

\* A tailoring whose two backend answers did not parse answered with
\* needs_confirmation = TRUE and stored a live pending edit, both with an empty
\* edits_summary.
C14_Witness ==
    /\ request.op = "tailor"
    /\ response # Raised
    /\ "needs_confirmation" \in DOMAIN response
    /\ response.needs_confirmation
    /\ response.edits_summary = << >>
    /\ pipeline.proposal = tailor_fallback(pipeline.resume)
    /\ pending_is_active(Pending(objects, request.doc_id))
    /\ Pending(objects, request.doc_id).edits_summary = << >>

\* propose_chat_edits returned a proposal that asks for a confirmation and has an
\* empty edits_summary: the backend left the two optional fields out.
C14_ChatProposalWithoutSummary ==
    /\ ChatPipeline
    /\ CallReturned(1) /\ TextOf(1) = TEXT_NO_SUMMARY
    /\ ~pipeline.raised
    /\ pipeline.proposal.needs_confirmation
    /\ pipeline.proposal.edits_summary = << >>

\* _extract_json_object has been applied to the text of the request.
Extracted == request.op = "extract" /\ response # [none |-> TRUE]

\* C15: for every text that is one valid JSON object inside a code fence and/or
\* between commentary, _extract_json_object returns exactly the text of that
\* object.
C15_ExtractsExactlyTheObject ==
    (Extracted /\ json_loads(request.object).ok)
    => response = [ok |-> TRUE, payload |-> request.object]

\* Braces in the commentary before the object made _extract_json_object return
\* the commentary's braces instead of the object.
C15_Witness ==
    /\ Extracted
    /\ json_loads(request.object).ok
    /\ Contains(request.before, <<"{">>)
    /\ request.fence = NoFence
    /\ response.ok
    /\ response.payload # request.object

\* What the code does: the object is returned exactly when the commentary before
\* it holds no brace, the text does not both start with "{" and end with "}"
\* around more than the object, and no fence marker inside the object is taken
\* for the closing fence.
C15_ExtractsBetweenPlainCommentary ==
    (/\ Extracted
     /\ json_loads(request.object).ok
     /\ ~Contains(request.before, <<"{">>)
     /\ ~(request.before = << >> /\ request.fence = NoFence
          /\ EndsWith(request.after, <<"}">>))
     /\ ~(request.before = << >> /\ request.fence # NoFence
          /\ Contains(request.object, FENCE)))
    => response = [ok |-> TRUE, payload |-> request.object]

\* The fenced answers of the model with the object each one holds.
FencedProposals ==
    {[text |-> TEXT_FENCED_EDIT, object |-> FENCED_EDIT_OBJECT],
     [text |-> TEXT_FENCED_NOTE, object |-> FENCED_NOTE_OBJECT]}

\* The fields of a proposal are those of the JSON object obj.
SameFields(proposal, obj) ==
    /\ proposal.assistant_message = obj.assistant_message.v
    /\ proposal.edits_summary
         = [i \in DOMAIN obj.edits_summary.v |-> obj.edits_summary.v[i].v]
    /\ proposal.proposed_resume = obj.proposed_resume
    /\ proposal.needs_confirmation = obj.needs_confirmation.v

RejectedTexts ==
    {TEXT_EMPTY, TEXT_PROSE, TEXT_UNBALANCED, TEXT_NOT_A_PROPOSAL, TEXT_WRONG_TYPE,
     TEXT_BAD_RESUME}

\* These, and the text holding the string "yes" where a bool is declared.
DefectiveTexts == RejectedTexts \cup {TEXT_STRING_FLAG}

\* A first answer of the set texts leads to the repair call, and a repair answer
\* of the set after it to the fallback proposal.
NeverReturned(texts) ==
    ChatPipeline =>
        /\ (CallReturned(1) /\ TextOf(1) \in texts)
           => /\ ~parse_proposal_response(TextOf(1)).ok
              /\ Len(pipeline.calls) = 2
              /\ pipeline.calls[2].contents
                   = retry_prompt(TextOf(1), pipeline.calls[1].contents)
        /\ (/\ CallReturned(1) /\ TextOf(1) \in texts
            /\ CallReturned(2) /\ TextOf(2) \in texts)
           => /\ ~parse_proposal_response(TextOf(2)).ok
              /\ ~pipeline.raised
              /\ pipeline.proposal = chat_fallback(pipeline.resume)

Rendered == request.op = "render" /\ "education" \in DOMAIN response

\* Every field of the entry is empty after trimming.
EmptyAfterTrimming(edu) ==
    /\ \A field \in {"school", "degree", "major", "grad", "gpa"} : Strip(edu[field]) = << >>
    /\ \A i \in DOMAIN edu.coursework : Strip(edu.coursework[i]) = << >>

AllEmptyAfterTrimming(education) ==
    \A i \in DOMAIN education : EmptyAfterTrimming(education[i])

EducationHeading == <<"\\","s","e","c","t","i","o","n","*","{","E","d","u","c","a","t","i","o","n","}">>

\* C18 as claimed: each section is rendered from its own entries alone, and a
\* section whose entries are all empty after trimming, fields of whitespace only
\* included, renders to the empty string, so the output has no Education heading.
C18_EmptySectionIsOmitted ==
    Rendered =>
        /\ response.education
             = render_education([education |-> request.resume.education, awards |-> << >>])
        /\ response.awards
             = render_awards([education |-> << >>, awards |-> request.resume.awards])
        /\ AllEmptyAfterTrimming(request.resume.education)
             => /\ response.education = << >>
                /\ Find(response.education, EducationHeading) = 0
        /\ (\A i \in DOMAIN request.resume.awards : Strip(request.resume.awards[i]) = << >>)
             => response.awards = << >>

\* An education entry whose school is one space has been rendered.
C18_Witness ==
    /\ Rendered
    /\ request.resume.education = <<[BlankEducation EXCEPT !.school = <<" ">>]>>
    /\ response.education # << >>

\* The GPA texts of the model that float reads as a number of at least 3.5.
NumbersAtLeastThreshold ==
    {<<"3",".","5">>, <<"3",".","5","0">>, <<"3",".","5","1">>, <<"3",".","9">>, <<"4">>, <<"4",".">>, <<" ","3",".","7"," ">>, <<"+","3",".","6">>, <<"1","e","1">>, <<"3","5","e","-","1">>,
     <<"3","6","E","-","1">>, <<"3","_","6">>, <<"0",".","0","3","5","e","2">>, <<"i","n","f">>, <<"I","n","f","i","n","i","t","y">>}

\* Those it reads as a number below 3.5, or as no number to compare (nan).
NumbersBelowThreshold == {<<"3",".","2">>, <<"3",".","4","9">>, <<".","5">>, <<"-","4">>, <<"-","i","n","f">>, <<"n","a","n">>}

\* Those it does not read as a number.
NotNumbers ==
    {<<" ">>, <<"3","_","_","6">>, <<"P","a","s","s">>, <<"N","/","A">>, <<"3",",","9">>, <<"3",".","5",".","1">>, <<"e","5">>, <<"0","x","4">>, <<"3",".","8","/","4",".","0">>, <<"A","_","1">>}

GpaIsShown(gpa) == gpa # << >> /\ gpa \in NumbersAtLeastThreshold \cup NotNumbers

\* C19: a GPA is shown if and only if it is non-empty and is either a number of at
\* least 3.5 or no number at all: "3.2" is hidden, "3.5" and "Pass" are shown, and
\* the rendered education has a GPA line exactly when an entry's GPA is shown.
C19_GpaShownIffHighOrNotNumber ==
    /\ GpaTexts = ({<< >>} \cup NumbersAtLeastThreshold \cup NumbersBelowThreshold
                   \cup NotNumbers) \ {<<"3",".","9">>}
    /\ (request.op = "gpa" /\ "show" \in DOMAIN response)
         => /\ response.show = GpaIsShown(request.gpa)
            /\ request.gpa = <<"3",".","2">> => ~response.show
            /\ request.gpa \in {<<"3",".","5">>, <<"P","a","s","s">>} => response.show
    /\ Rendered
         => (Find(response.education, <<"G","P","A",":">>) # 0
               <=> \E i \in DOMAIN request.resume.education :
                       GpaIsShown(request.resume.education[i].gpa))

\* An entry whose only field is the GPA 3.5 has been rendered with its GPA line.
C19_Witness ==
    /\ Rendered
    /\ request.resume.education = <<[BlankEducation EXCEPT !.gpa = <<"3",".","5">>]>>
    /\ response.education = EducationHeading \o <<"\n","G","P","A",":"," ","3",".","5","\n">>

\* The image of one character under the table.
TableEntry(ch) ==
    IF \E i \in DOMAIN LATEX_REPLACEMENTS : LATEX_REPLACEMENTS[i].key = ch
    THEN ReplacementOf(ch) ELSE <<ch>>

\* The character-by-character image of a text under the table.
RECURSIVE TableImage(_)
TableImage(text) ==
    IF text = << >> THEN << >> ELSE TableEntry(Head(text)) \o TableImage(Tail(text))

Escaped == request.op = "escape" /\ "escaped" \in DOMAIN response

\* C20 as claimed: the output of _escape_latex is the character-by-character image
\* of its input under the table: each reserved character becomes its entry, every
\* other character is kept, and nothing a substitution introduced is escaped again.
C20_EscapeIsTableImage == Escaped => response.escaped = TableImage(request.text)

\* A single backslash has been escaped: the braces of its entry are escaped too.
C20_Witness ==
    /\ Escaped
    /\ request.text = <<"\\">>
    /\ response.escaped = <<"\\","t","e","x","t","b","a","c","k","s","l","a","s","h","\\","{","\\","}">>

\* The entry yields no line: its text fields are empty, its coursework items are
\* blank and its GPA is not shown.
YieldsNoLine(edu) ==
    /\ \A field \in {"school", "degree", "major", "grad"} : edu[field] = << >>
    /\ \A i \in DOMAIN edu.coursework : Strip(edu.coursework[i]) = << >>
    /\ ~GpaIsShown(edu.gpa)

\* C18, what the code does: the Education section is omitted exactly when no entry
\* yields a line, and the Awards section exactly when every award is blank.
C18_SectionWithoutLinesIsOmitted ==
    Rendered =>
        /\ response.education = << >>
             <=> \A i \in DOMAIN request.resume.education :
                     YieldsNoLine(request.resume.education[i])
        /\ response.education # << >> => StartsWith(response.education, EducationHeading)
        /\ response.awards = << >>
             <=> \A i \in DOMAIN request.resume.awards :
                     Strip(request.resume.awards[i]) = << >>

\* The image of one character as _escape_latex produces it: the braces of the
\* backslash's entry are escaped by the later items of the table.
ComposedEntry(ch) == IF ch = "\\" THEN <<"\\","t","e","x","t","b","a","c","k","s","l","a","s","h","\\","{","\\","}">> ELSE TableEntry(ch)

RECURSIVE ComposedImage(_)
ComposedImage(text) ==
    IF text = << >> THEN << >> ELSE ComposedEntry(Head(text)) \o ComposedImage(Tail(text))

\* C20, what the code does: the output is the character-by-character image of the
\* input under the table, except that a backslash becomes \textbackslash\{\}.
C20_EscapeIsComposedImage == Escaped => response.escaped = ComposedImage(request.text)

\* ------------------------------------------------- escaping of the fields

\* Reserved characters no fixed part of the markup contains: in the output they
\* come from a field. An escaped one follows a backslash; the entries of ~ and ^
\* do not contain the character at all.
FieldOnlyCharacters == {"&", "%", "$", "#", "_", "~", "^"}

UnescapedAt(text, i) ==
    /\ text[i] \in FieldOnlyCharacters
    /\ text[i] \in {"~", "^"} \/ i = 1 \/ text[i - 1] # "\\"

Unescaped(text) == {text[i] : i \in {j \in DOMAIN text : UnescapedAt(text, j)}}

\* The characters of a text.
Characters(text) == {text[i] : i \in DOMAIN text}

HeaderRendered == request.op = "header" /\ "header" \in DOMAIN response

ProjectsRendered == request.op = "projects" /\ "projects" \in DOMAIN response

\* The characters of the fields that are embedded as link targets.
HeaderTargets ==
    UNION {Characters(request.resume.header[field]) :
               field \in {"email", "linkedin", "github", "portfolio"}}

ProjectTargets ==
    UNION {Characters(request.resume.projects[i].link) : i \in DOMAIN request.resume.projects}

\* C21 as claimed: every field is escaped before it is embedded, the header's
\* email and links and the project links included, so the rendered header and
\* projects hold no unescaped reserved character that comes from a field.
C21_NoUnescapedFieldCharacter ==
    /\ HeaderRendered => Unescaped(response.header) = {}
    /\ ProjectsRendered => Unescaped(response.projects) = {}

\* C21, what the code does: an unescaped reserved character of the output comes
\* from the email or a link field, which are embedded as link targets as they are.
C21_OnlyLinkTargetsAreUnescaped ==
    /\ HeaderRendered => Unescaped(response.header) \subseteq HeaderTargets
    /\ ProjectsRendered => Unescaped(response.projects) \subseteq ProjectTargets

\* A header whose linkedin field holds an underscore has been rendered: the link
\* target holds it as it is, the link text escaped.
C21_Witness ==
    /\ HeaderRendered
    /\ request.resume.header.linkedin = <<"x",".","i","o","/","a","_","b">>
    /\ Contains(response.header, <<"\\","h","r","e","f","{","h","t","t","p","s",":","/","/","x",".","i","o","/","a",
          "_","b","}","{","x",".","i","o","/","a","\\","_","b","}">>)

\* ------------------------------------------------- documents side by side

\* The objects of the store that belong to a document: its id is in their key.
OwnObjects(store, doc_id) ==
    [key \in {k \in DOMAIN store : k[2] = doc_id} |-> store[key]]

OtherObjects(store, doc_id) ==
    [key \in {k \in DOMAIN store : k[2] # doc_id} |-> store[key]]

\* What the handler of the step's request does on a store, for some backend
\* answers and some template.
Handlings(store, req) ==
    IF req.op = "chat"
    THEN {chat_resume(store, req.doc_id, req.message, TRUE, first, first) :
              first \in TwoDocResults}
    ELSE IF req.op = "tailor"
    THEN {tailor_resume_for_job(store, req.doc_id, req.message, TRUE, first, first) :
              first \in TwoDocResults}
    ELSE {export_resume(store, req.doc_id, template_tex) : template_tex \in Templates}

\* C22: a chat, tailor or export request for a document leaves every object of the
\* other document as it was, and what it answers, asks the backend and writes is
\* what the handler does on the document's own objects alone.
C22_DocumentsAreIndependent ==
    [][/\ OtherObjects(objects', request'.doc_id) = OtherObjects(objects, request'.doc_id)
       /\ \E handled \in Handlings(OwnObjects(objects, request'.doc_id), request') :
              /\ handled.store = OwnObjects(objects', request'.doc_id)
              /\ handled.response = response'
              /\ handled.pipeline = pipeline']_vars

\* A proposal for one document has been stored while the other document has an
\* edit pending, and the other one's pending record is still the one it had.
C22_Witness ==
    /\ request.op = "chat" /\ request.doc_id = "d2" /\ request.message = <<"b","u","l","l","e","t","s">>
    /\ response # Raised /\ "needs_confirmation" \in DOMAIN response
    /\ has_object(objects, pending_key("d2"))
    /\ has_object(objects, pending_key("d1"))
    /\ get_object_bytes(objects, pending_key("d1"))
         = get_object_bytes(ProposedStore("d1"), pending_key("d1"))

\* ------------------------------------------------- writes of the pending edit

\* The step stores a pending edit for document d: afterwards the record has
\* status "pending" and is not the record that was there.
PendingWritten(d) ==
    /\ pending_is_active(Pending(objects', d))
    /\ Pending(objects', d) # Pending(objects, d)

\* The step's pipeline returned a proposal that asks for a confirmation.
ConfirmationProposed ==
    /\ pipeline'.invoked
    /\ ~pipeline'.raised
    /\ pipeline'.proposal.needs_confirmation

\* C23 as claimed: a pending edit is created or overwritten only by a request
\* whose pipeline returned a proposal with needs_confirmation = TRUE, in the chat
\* flow and in the job-tailoring flow, the safe fallback included.
C23_PendingOnlyOnConfirmation ==
    [][\A d \in DocIds : PendingWritten(d) => ConfirmationProposed]_vars

\* C23, what the code does: the chat flow stores a pending edit only for such a
\* proposal; the job-tailoring flow stores every proposal its pipeline returns.
C23_ChatStoresOnlyOnConfirmation ==
    [][\A d \in DocIds :
        /\ (PendingWritten(d) /\ request'.op = "chat") => ConfirmationProposed
        /\ PendingWritten(d) => request'.op \in {"chat", "tailor"} /\ request'.doc_id = d
        /\ (request'.op = "tailor" /\ request'.doc_id = d /\ response' # Raised
            /\ pipeline'.invoked)
           => /\ pending_is_active(Pending(objects', d))
              /\ Pending(objects', d).resume = pipeline'.proposal.proposed_resume]_vars

\* A tailoring whose backend answer is a proposal with needs_confirmation = FALSE
\* has stored that proposal as a live pending edit.
C23_Witness ==
    /\ request.op = "tailor"
    /\ response # Raised
    /\ pipeline.invoked /\ ~pipeline.raised
    /\ pipeline.proposal = ParsedResponse[TEXT_CLARIFY].proposal
    /\ ~pipeline.proposal.needs_confirmation
    /\ pending_is_active(Pending(objects, request.doc_id))
    /\ Pending(objects, request.doc_id).resume = pipeline.proposal.proposed_resume

\* ------------------------------------------------- after applied or rejected

\* The pending edit of document d has been applied or rejected.
Closed(store, d) == Pending(store, d) # None /\ Pending(store, d).status \in {"applied", "rejected"}

\* C24: once the pending edit is applied or rejected, a chat message, affirmative
\* or negative, is handled by rule 3 (no change) or rule 4 (a new request) and
\* commits nothing, and the record keeps its status until a new record with
\* status "pending" overwrites it.
C24_ClosedEditIsIdle ==
    [][\A d \in DocIds :
        Closed(objects, d)
        => /\ Pending(objects', d) = Pending(objects, d)
              \/ pending_is_active(Pending(objects', d))
           /\ (ChatStep(d) /\ Loadable(d))
              => /\ Draft(objects', d) = Draft(objects, d)
                 /\ response' # Raised => response'.status \in {"info", "pending"}
                 /\ IF is_no_change(Strip(request'.message))
                    THEN /\ ~pipeline'.invoked
                         /\ response'.assistant_message = NO_CHANGE_MESSAGE
                    ELSE /\ pipeline'.invoked
                         /\ pipeline'.message = normalize_chat_request(Strip(request'.message))]_vars

\* After the edit was applied, an affirmative message went to the pipeline as a
\* new request and was answered with a plain message; the record is still applied.
C24_Witness ==
    /\ ChatReturned
    /\ is_affirmative(Strip(request.message))
    /\ ~is_no_change(Strip(request.message))
    /\ pipeline.invoked
    /\ response.status = "info"
    /\ Closed(objects, request.doc_id)
    /\ Pending(objects, request.doc_id).status = "applied"

\* ------------------------------------------------- the scan for the object

\* The backslashes that stand directly before position i, from start on.
BackslashRun(s, start, i) ==
    Cardinality({j \in start..(i - 1) : \A k \in j..(i - 1) : s[k] = "\\"})

\* The character at i follows an escaping backslash.
EscapedAt(s, start, i) == BackslashRun(s, start, i) % 2 = 1

\* A quote that opens or ends a string: one that is not escaped.
QuoteAt(s, start, i) == s[i] = "\"" /\ ~EscapedAt(s, start, i)

InString(s, start, i) ==
    Cardinality({j \in start..(i - 1) : QuoteAt(s, start, j)}) % 2 = 1

\* A brace that counts: outside the strings, and, where escapes says so, not escaped.
BraceAt(s, start, i, brace, escapes) ==
    /\ s[i] = brace
    /\ ~InString(s, start, i)
    /\ escapes => ~EscapedAt(s, start, i)

DepthAt(s, start, i, escapes) ==
    Cardinality({j \in start..i : BraceAt(s, start, j, "{", escapes)})
    - Cardinality({j \in start..i : BraceAt(s, start, j, "}", escapes)})

\* The positions of a closing brace at which the depth is back at zero.
Closings(s, start, escapes) ==
    {i \in start..Len(s) : BraceAt(s, start, i, "}", escapes) /\ DepthAt(s, start, i, escapes) = 0}

\* From the first "{" to the first closing, or the failure.
ScannedObject(s, escapes) ==
    IF Find(s, <<"{">>) = 0 \/ Closings(s, Find(s, <<"{">>), escapes) = {} THEN ExtractFail
    ELSE [ok |-> TRUE,
          payload |-> SubSeq(s, Find(s, <<"{">>), Min(Closings(s, Find(s, <<"{">>), escapes)))]

\* The text without its fences is not one that starts with "{" and ends with "}".
Scanned ==
    /\ Extracted
    /\ ~(StartsWith(strip_fences(request.text), <<"{">>)
         /\ EndsWith(strip_fences(request.text), <<"}">>))

\* C25 as claimed: for such a text _extract_json_object returns the text from the
\* first "{" to the "}" at which the depth is back at zero, counting the braces
\* outside the quoted strings, where an escaped quote does not end a string; it
\* fails when there is no "{" or the depth never comes back to zero.
C25_ScanCountsBracesOutsideStrings ==
    Scanned => response = ScannedObject(strip_fences(request.text), FALSE)

\* C25 as amended: the same, with a backslash escaping the character after it
\* outside the strings too, so that an escaped brace is not counted anywhere.
C25_ScanCountsUnescapedBraces ==
    Scanned => response = ScannedObject(strip_fences(request.text), TRUE)

\* An object whose string holds an escaped quote and a brace has been taken out
\* of the commentary around it.
C25_Witness ==
    /\ Scanned
    /\ request.object = <<"{","\"","a","\"",":"," ","\"","x","\\","\"","}","\"","}">>
    /\ request.before = <<"S","u","r","e",":"," ">>
    /\ request.after = <<" ","D","o","n","e",".">>
    /\ response = [ok |-> TRUE, payload |-> request.object]

\* ------------------------------------------------- requests side by side

\* The last step was the write of a request.
LastWriter ==
    IF request.op = "concurrent" /\ request.log # << >>
       /\ request.log[Len(request.log)][1] = "write"
    THEN request.log[Len(request.log)][2] ELSE 0

\* Both requests read before either wrote.
BothReadFirst ==
    /\ Len(request.log) = 4
    /\ request.log[1][1] = "read" /\ request.log[2][1] = "read"

ReadBy(client) == request.reads[client]

HeaderNames == {"name", "email", "phone", "linkedin", "github", "portfolio", "location"}

IsText(j) == j.t = "str"

IsTexts(j) == j.t = "list" /\ \A i \in DOMAIN j.v : IsText(j.v[i])

\* j is an object of exactly these fields, texts being strings and lists being
\* lists of strings.
IsEntry(j, texts, lists) ==
    /\ j.t = "obj"
    /\ DOMAIN j.v = texts \cup lists
    /\ \A key \in texts : IsText(j.v[key])
    /\ \A key \in lists : IsTexts(j.v[key])

IsEntries(j, texts, lists) ==
    j.t = "list" /\ \A i \in DOMAIN j.v : IsEntry(j.v[i], texts, lists)

\* j holds every field of every section of resume_schema.py, none of them null.
IsWholeDocument(j) ==
    /\ j.t = "obj"
    /\ DOMAIN j.v = {"header", "education", "skills", "experience", "projects",
                     "leadership", "awards"}
    /\ IsEntry(j.v.header, HeaderNames, {})
    /\ IsEntries(j.v.education, {"school", "degree", "major", "grad", "gpa"}, {"coursework"})
    /\ IsEntry(j.v.skills, {}, {"languages", "frameworks", "tools", "concepts"})
    /\ IsEntries(j.v.experience, {"company", "location", "role", "start", "end"}, {"bullets"})
    /\ IsEntries(j.v.projects, {"name", "link", "start", "end"}, {"stack", "bullets"})
    /\ IsEntries(j.v.leadership, {"org", "title", "start", "end"}, {"bullets"})
    /\ IsTexts(j.v.awards)

Committed(store, d) == {key \in {parsed_key(d), draft_key(d)} : has_object(store, key)}

\* The object the backend returned for the parse request.
BackendObject == loaded_payload(extract_json_object(request.message.text))

\* C27: every committed document, written by the parse step or by applying a
\* pending edit, holds every field of every section, a field that was not given
\* being the empty string or the empty list, and no field is null; this also when
\* the pending edit's resume or the backend's object left fields out.
C27_CommittedDocumentIsWhole ==
    \A key \in Committed(objects, "d1") :
        /\ IsWholeDocument(objects[key])
        /\ (key = draft_key("d1") /\ request.op = "chat" /\ response # Raised
            /\ response.status = "applied")
            => \A name \in {"education", "experience", "projects", "leadership", "awards"} :
                  name \notin DOMAIN Pending(objects, "d1").resume.v
                  => objects[key].v[name] = JList(<< >>)
        /\ (key = parsed_key("d1") /\ request.op = "parse" /\ response # Raised
            /\ api_key /\ request.message.ok /\ BackendObject.ok
            /\ Validate(Resume, BackendObject.val).ok
            /\ "header" \in DOMAIN BackendObject.val.v)
            => \A name \in HeaderNames \ DOMAIN BackendObject.val.v.header.v :
                  objects[key].v.header.v[name] = JStr(<< >>)

\* A pending edit whose resume names the header only has been applied, after a
\* parse whose backend object gave a name and skills only.
C27_Witness ==
    /\ request.op = "chat" /\ response # Raised /\ response.status = "applied"
    /\ DOMAIN Pending(objects, "d1").resume.v = {"header"}
    /\ Draft(objects, "d1").v.awards = JList(<< >>)
    /\ Draft(objects, "d1").v.header.v.email = JStr(<< >>)
    /\ has_object(objects, parsed_key("d1"))
    /\ objects[parsed_key("d1")].v.header.v.phone = JStr(<< >>)

\* j is a resume object whose skills.categories names at least one group.
HasGroups(j) ==
    /\ j.t = "obj" /\ "skills" \in DOMAIN j.v
    /\ j.v.skills.t = "obj" /\ "categories" \in DOMAIN j.v.skills.v
    /\ j.v.skills.v.categories.t = "obj"
    /\ DOMAIN j.v.skills.v.categories.v # {}

\* The committed document j holds the named groups of the object given.
KeepsGroups(j, given) ==
    /\ "categories" \in DOMAIN j.v.skills.v
    /\ j.v.skills.v.categories = given.v.skills.v.categories

\* The last request applied the pending edit.
EditApplied == request.op = "chat" /\ response # Raised /\ response.status = "applied"

\* The last request was a parse whose backend object was validated and stored.
ObjectParsed ==
    /\ request.op = "parse" /\ response # Raised
    /\ api_key /\ request.message.ok
    /\ BackendObject.ok /\ Validate(Resume, BackendObject.val).ok

\* C28 as claimed: a parsed or proposed resume whose skills.categories is not
\* empty gives, once validated and committed, a committed document with the same
\* named groups.
C28_NamedGroupsAreKept ==
    /\ (EditApplied /\ HasGroups(Pending(objects, "d1").resume))
        => KeepsGroups(Draft(objects, "d1"), Pending(objects, "d1").resume)
    /\ (ObjectParsed /\ HasGroups(BackendObject.val))
        => KeepsGroups(objects[parsed_key("d1")], BackendObject.val)

\* C28 as the code has it: the skills of a committed document are the four flat
\* lists of the object given, and nothing else; named groups are kept in the
\* pending edit only.
C28_CommittedSkillsAreFlat ==
    /\ \A key \in Committed(objects, "d1") :
          DOMAIN objects[key].v.skills.v = {"languages", "frameworks", "tools", "concepts"}
    /\ (EditApplied /\ HasGroups(Pending(objects, "d1").resume))
        => Draft(objects, "d1").v.skills.v.languages
             = Pending(objects, "d1").resume.v.skills.v.languages
    /\ (ObjectParsed /\ HasGroups(BackendObject.val))
        => objects[parsed_key("d1")].v.skills.v.tools = BackendObject.val.v.skills.v.tools

\* An edit with the group "Lab" has been applied, and the draft has no groups.
C28_Witness ==
    /\ EditApplied
    /\ HasGroups(Pending(objects, "d1").resume)
    /\ "categories" \notin DOMAIN Draft(objects, "d1").v.skills.v
    /\ Draft(objects, "d1").v.skills.v.languages = JList(<<JStr(<<"G","o">>)>>)

\* ------------------------------------------------------------- normalization

\* Three word tokens or fewer, naming bullets (also next to wording or skills).
BulletsRequests == {<<"b","u","l","l","e","t","s">>, <<" ","B","e","t","t","e","r"," ","B","u","l","l","e","t","s","!"," ">>, <<"2"," ","b","u","l","l","e","t","s",","," ","3"," ","s","k","i","l","l","s">>}

\* Three word tokens or fewer, naming wording words and no bullets.
PolishRequests == {<<"i","m","p","r","o","v","e"," ","s","k","i","l","l","s">>}

\* Three word tokens or fewer, naming skills or stack only.
SkillsRequests == {<<"t","e","c","h"," ","s","t","a","c","k">>}

\* More than three word tokens (co-op counts as two), or none of the words.
PlainRequests == {<<"f","i","x"," ","m","y"," ","s","k","i","l","l","s"," ","s","e","c","t","i","o",
          "n">>, <<"b","u","l","l","e","t","s"," ","c","o","-","o","p"," ","x">>, <<"s","h","o","r","t","e","n"," ","t","h","e"," ","s","u","m","m","a","r","y">>}

\* The message as the user wrote it, without the blanks around it.
Trimmed ==
    CASE request.message = <<" ","B","e","t","t","e","r"," ","B","u","l","l","e","t","s","!"," ">> -> <<"B","e","t","t","e","r"," ","B","u","l","l","e","t","s","!">>
      [] OTHER -> request.message

\* The last request was a chat request answered through the pipeline.
PipelineAsked == request.op = "chat" /\ pipeline.invoked

\* C29: in rule 4 the pipeline is given the normalized message: the bullets
\* instruction for a message of at most three word tokens naming bullets, else
\* the polish instruction for one naming professional, polish, improve or better,
\* else the skills instruction for one naming skills or stack; a longer message
\* and one naming none of them is given as written (trimmed); and the user turn
\* stored in the history is the trimmed message as written, never the instruction.
C29_PipelineGetsNormalizedMessage ==
    PipelineAsked
    => /\ request.message \in BulletsRequests => pipeline.message = BULLETS_INSTRUCTION
       /\ request.message \in PolishRequests => pipeline.message = POLISH_INSTRUCTION
       /\ request.message \in SkillsRequests => pipeline.message = SKILLS_INSTRUCTION
       /\ request.message \in PlainRequests => pipeline.message = Trimmed
       /\ response # Raised
            => LET history == load_history(objects, "d1")
               IN  /\ Len(history) >= 2
                   /\ history[Len(history) - 1] = Turn(<<"u","s","e","r">>, Trimmed)
                   /\ history[Len(history)] = Turn(<<"a","s","s","i","s","t","a","n","t">>, response.assistant_message)

\* "Better Bullets!" was asked with blanks around it: the pipeline got the bullets
\* instruction, not the polish one, and the history holds the words as written.
C29_Witness ==
    /\ PipelineAsked
    /\ request.message = <<" ","B","e","t","t","e","r"," ","B","u","l","l","e","t","s","!"," ">>
    /\ pipeline.message = BULLETS_INSTRUCTION
    /\ response # Raised
    /\ load_history(objects, "d1")[Len(load_history(objects, "d1")) - 1]
         = Turn(<<"u","s","e","r">>, <<"B","e","t","t","e","r"," ","B","u","l","l","e","t","s","!">>)

\* ------------------------------------------------------------ history window

\* The last turns of a history, twelve at most.
Trailing(history) ==
    [i \in 1..(IF Len(history) < 12 THEN Len(history) ELSE 12) |->
        history[i + (IF Len(history) < 12 THEN 0 ELSE Len(history) - 12)]]

HasContent(turn) == Strip(turn.content) # << >>

\* The lines of the prompt for these turns: one for each turn with a content.
Shown(turns) ==
    [i \in DOMAIN SelectSeq(turns, HasContent) |->
        [role |-> SelectSeq(turns, HasContent)[i].role,
         content |-> Strip(SelectSeq(turns, HasContent)[i].content)]]

\* The history blocks of the prompts the backend was called with.
HistoryBlocks(calls) ==
    {IF calls[i].contents.kind = "repair" THEN calls[i].contents.base_prompt.history_block
     ELSE calls[i].contents.history_block : i \in DOMAIN calls}

\* C30: the backend is shown the last twelve stored turns at most, in their stored
\* order, in the first prompt and in the repair prompt; no older turn is in the
\* prompt; and the stored history is not cut: after the request it is the history
\* found, whole, with the new turn after it.
C30_BackendSeesTrailingWindow ==
    [][(request'.op = "chat" /\ pipeline'.invoked /\ pipeline'.calls # << >>)
       => LET stored == load_history(objects, "d1")
              after  == load_history(objects', "d1")
          IN  /\ HistoryBlocks(pipeline'.calls) = {Shown(Trailing(stored))}
              /\ \A block \in HistoryBlocks(pipeline'.calls) :
                    /\ Len(block) <= 12
                    /\ \A i \in 1..(Len(stored) - 12), j \in DOMAIN block :
                          block[j].content # Strip(stored[i].content)
              /\ response' # Raised
                    => /\ Len(after) = Len(stored) + 2
                       /\ SubSeq(after, 1, Len(stored)) = stored]_vars

\* A request after fourteen stored turns: the prompt began with the third, and
\* the history now has sixteen.
C30_Witness ==
    /\ request.op = "chat" /\ pipeline.invoked /\ pipeline.calls # << >>
    /\ response # Raised
    /\ Len(load_history(objects, "d1")) = 16
    /\ load_history(objects, "d1")[1].content = TurnContent(1)
    /\ Len(pipeline.calls[1].contents.history_block) = 12
    /\ pipeline.calls[1].contents.history_block[1] = Turn(<<"u","s","e","r">>, TurnContent(3))
    /\ pipeline.calls[1].contents.history_block[12] = Turn(<<"a","s","s","i","s","t","a","n","t">>, TurnContent(14))

\* ------------------------------------------------------ template substitution

Token(block) == <<"{","{">> \o block.key \o <<"}","}">>

\* The blocks whose token stands in text.
Standing(text, blocks) == {i \in DOMAIN blocks : Find(text, Token(blocks[i])) # 0}

\* The block whose token stands first in text.
FirstStanding(text, blocks) ==
    CHOOSE i \in Standing(text, blocks) :
        \A j \in Standing(text, blocks) :
            Find(text, Token(blocks[i])) <= Find(text, Token(blocks[j]))

\* text with every token replaced by the fragment of its block, all at once: the
\* fragments put in are not looked at again.
RECURSIVE Simultaneous(_, _)
Simultaneous(text, blocks) ==
    IF Standing(text, blocks) = {} THEN text
    ELSE SubSeq(text, 1, Find(text, Token(blocks[FirstStanding(text, blocks)])) - 1)
         \o Strip(blocks[FirstStanding(text, blocks)].value)
         \o Simultaneous(DropFirst(text,
                                   Find(text, Token(blocks[FirstStanding(text, blocks)]))
                                   + Len(Token(blocks[FirstStanding(text, blocks)])) - 1),
                         blocks)

TemplateRendered == request.op = "template" /\ response # [none |-> TRUE]

\* C31 as claimed: the rendered text is the template with the seven placeholder
\* tokens replaced by their fragments all at once, whatever the fields of the
\* document hold.
C31_RenderIsSimultaneousSubstitution ==
    TemplateRendered
    => response.rendered = Simultaneous(request.template, replacements(request.resume))

\* No address or link of the document is written like a placeholder.
PlainTargets ==
    /\ ~Contains(request.resume.header.email, <<"{","{">>)
    /\ \A i \in DOMAIN request.resume.projects :
          ~Contains(request.resume.projects[i].link, <<"{","{">>)

\* C31 as the code has it: the replacements are made one after the other, so the
\* result is the simultaneous substitution when no fragment put in earlier holds
\* the token of a later block: for the templates whose tokens stand apart and the
\* documents whose addresses and links are not written like a placeholder. A
\* name or an award written like a placeholder is escaped and stays as it is.
C31_RenderIsSubstitutionForPlainTargets ==
    (TemplateRendered /\ PlainTargets
     /\ request.template # <<"{","{","{","{","S","K","I","L","L","S","_","B","L","O","C","K","}","}","A","W",
          "A","R","D","S","_","B","L","O","C","K","}","}">>)
    => response.rendered = Simultaneous(request.template, replacements(request.resume))

\* A document whose name and award are written like placeholders, with a plain
\* address, was rendered into the template that has each placeholder: the escaped
\* words are in the result.
C31_Witness ==
    /\ TemplateRendered
    /\ request.template = <<"{","{","H","E","A","D","E","R","_","B","L","O","C","K","}","}","\n","{","{","A",
          "W","A","R","D","S","_","B","L","O","C","K","}","}","\n">>
    /\ request.resume.header.name = <<"{","{","A","W","A","R","D","S","_","B","L","O","C","K","}","}">>
    /\ request.resume.header.email = <<"a","l","@","x",".","i","o">>
    /\ request.resume.awards = <<<<"{","{","H","E","A","D","E","R","_","B","L","O","C","K","}","}">>>>
    /\ Contains(response.rendered, <<"\\","{","\\","{","A","W","A","R","D","S","\\","_","B","L","O","C","K","\\","}",
          "\\","}">>)
    /\ Contains(response.rendered, <<"\\","{","\\","{","H","E","A","D","E","R","\\","_","B","L","O","C","K","\\","}",
          "\\","}">>)
    /\ ~Contains(response.rendered, <<"{","{">>)

\* --------------------------------------------------------------- bullet lists

\* The text is empty or made of blanks, tabs and line ends only.
IsBlankText(text) == \A i \in DOMAIN text : text[i] \in {" ", "\t", "\n", "\r"}

\* One line for each item that is not blank, in the order of the items.
RECURSIVE KeptLines(_)
KeptLines(items) ==
    IF items = << >> THEN << >>
    ELSE (IF IsBlankText(Head(items)) THEN << >>
          ELSE <<"\n"," "," "," "," ","\\","i","t","e","m"," ">> \o escape_latex(Head(items)))
         \o KeptLines(Tail(items))

ListOf(items) ==
    IF KeptLines(items) = << >> THEN << >>
    ELSE <<"\\","b","e","g","i","n","{","i","t","e","m","i","z","e","}">> \o KeptLines(items) \o <<"\n","\\","e","n","d","{","i","t","e","m","i","z","e","}">>

AllBlank(items) == \A i \in DOMAIN items : IsBlankText(items[i])

Formatted(op) == request.op = op /\ response # [none |-> TRUE]

FirstRole == request.resume.experience[1]

\* C32: format_itemize leaves out each bullet that is empty or blank and keeps the
\* others, escaped, in their order inside one list environment; with no bullet
\* left it gives the empty text. A role whose bullets are all left out is
\* rendered without a list environment and with its company and title lines as they
\* are set, and a role with no part at all gives no entry.
C32_BlankBulletsAreDropped ==
    /\ Formatted("itemize")
        => /\ response.text = ListOf(request.items)
           /\ AllBlank(request.items) <=> response.text = << >>
           /\ Cardinality(Occurrences(response.text, <<"\\","b","e","g","i","n","{","i","t","e","m","i","z","e","}">>)) <= 1
    /\ (Formatted("experience") /\ Len(request.resume.experience) = 1)
        => /\ AllBlank(FirstRole.bullets) => ~Contains(response.text, <<"i","t","e","m","i","z","e">>)
           /\ ~AllBlank(FirstRole.bullets) => Contains(response.text, ListOf(FirstRole.bullets))
           /\ FirstRole.company # << >> => Contains(response.text, <<"\\","t","e","x","t","b","f","{","A","\\","&","B","}"," ","\\">>)
           /\ FirstRole.role # << >> => Contains(response.text, <<"D","e","v">>)
           /\ (FirstRole.company = << >> /\ FirstRole.role = << >> /\ AllBlank(FirstRole.bullets))
                => response.text = << >>
    /\ (Formatted("experience") /\ Len(request.resume.experience) = 2)
        => /\ Contains(response.text, <<"Q","A">>)
           /\ Cardinality(Occurrences(response.text, <<"\\","b","e","g","i","n","{","i","t","e","m","i","z","e","}">>))
                = (IF AllBlank(FirstRole.bullets) THEN 0 ELSE 1)

\* A role with a company, a title and the bullets " ", "Led team", "", "50%" has
\* been rendered: one list of two items stands under the title.
C32_Witness ==
    /\ Formatted("experience")
    /\ Len(request.resume.experience) = 1
    /\ FirstRole.bullets = <<<<" ">>, <<"L","e","d"," ","t","e","a","m">>, << >>, <<"5","0","%">>>>
    /\ Contains(response.text,
                <<"\\","t","e","x","t","b","f","{","A","\\","&","B","}"," ","\\","\n","D","e","v",
          "\n","\\","b","e","g","i","n","{","i","t","e","m","i","z","e","}","\n"," "," ",
          " "," ","\\","i","t","e","m"," ","L","e","d"," ","t","e","a","m","\n"," "," "," ",
          " ","\\","i","t","e","m"," ","5","0","\\","%","\n","\\","e","n","d","{","i","t",
          "e","m","i","z","e","}">>)

\* ------------------------------------------------- a pending edit that waits

\* The step's pipeline raised, or returned a proposal that asks for no
\* confirmation.
NothingToConfirm ==
    /\ pipeline'.invoked
    /\ pipeline'.raised \/ ~pipeline'.proposal.needs_confirmation

\* C33: a pending edit with status pending is left as it is, with its resume and
\* its edits_summary, by every chat turn that reaches the pipeline and gets a
\* proposal with needs_confirmation false or an exception; the turn answers with
\* status info and writes no draft. An affirmative message that finds the pending
\* edit commits the resume of that edit.
C33_PendingEditWaits ==
    [][\A d \in DocIds :
        /\ (ChatStep(d) /\ PendingActive(d) /\ NothingToConfirm)
            => /\ Pending(objects', d) = Pending(objects, d)
               /\ Draft(objects', d) = Draft(objects, d)
               /\ response' # Raised /\ response'.status = "info"
        /\ (ChatStep(d) /\ PendingActive(d) /\ response' # Raised
            /\ response'.status = "applied")
            => /\ Draft(objects', d) = Validate(Resume, Pending(objects, d).resume).val
               /\ Pending(objects', d) = [Pending(objects, d) EXCEPT !.status = "applied"]]_vars

\* A tailored edit was pending, a chat turn was answered with a question, and the
\* next message, an affirmative one, has committed the tailored edit.
C33_Witness ==
    /\ request.op = "chat" /\ response # Raised /\ response.status = "applied"
    /\ Len(load_history(objects, "d1")) = 4
    /\ load_history(objects, "d1")[2].content = <<"h","m","?">>
    /\ Pending(objects, "d1").status = "applied"
    /\ Pending(objects, "d1").edits_summary = <<<<"e">>>>
    /\ Draft(objects, "d1") = Validate(Resume, Pending(objects, "d1").resume).val

\* ------------------------------------------- the document a request starts from

\* The committed draft of d when there is one, else the document the parse stored.
Base(store, d) ==
    IF has_object(store, draft_key(d)) THEN store[draft_key(d)] ELSE store[parsed_key(d)]

BaseKey(store, d) ==
    IF has_object(store, draft_key(d)) THEN draft_key(d) ELSE parsed_key(d)

\* C34: the document a chat turn or a tailoring request gives to the pipeline,
\* the one a chat turn that rejects or changes nothing returns, and the one an
\* export bundles, is the committed draft once there is one and the parsed
\* document otherwise; a parse that runs after an edit was applied rewrites the
\* parsed key only and leaves that document as it was.
C34_BaseIsCommittedDraft ==
    [][\A d \in DocIds :
        /\ (request'.op \in {"chat", "tailor"} /\ request'.doc_id = d /\ pipeline'.invoked)
            => pipeline'.resume = Validate(Resume, Base(objects, d)).val
        /\ (request'.op = "chat" /\ request'.doc_id = d /\ response' # Raised
            /\ ~pipeline'.invoked /\ response'.status # "applied")
            => response'.resume = Validate(Resume, Base(objects, d)).val
        /\ (request'.op = "export" /\ request'.doc_id = d /\ response' # Raised)
            => IF "error" \in DOMAIN response'
               THEN response'.used_resume_key = BaseKey(objects, d)
               ELSE /\ response'.source_key = BaseKey(objects, d)
                    /\ objects'[export_key(d)].resume_json = Base(objects, d)
        /\ (request'.op = "parse" /\ request'.doc_id = d /\ response' # Raised
            /\ has_object(objects, draft_key(d)))
            => /\ Base(objects', d) = Base(objects, d)
               /\ DOMAIN objects' = DOMAIN objects
               /\ \A key \in DOMAIN objects :
                    key # parsed_key(d) => objects'[key] = objects[key]]_vars

\* An edit was applied, the parse ran again and stored another document, and the
\* export that followed has bundled the draft.
C34_Witness ==
    /\ request.op = "export" /\ response # Raised /\ "error" \notin DOMAIN response
    /\ has_object(objects, draft_key("d1"))
    /\ objects[parsed_key("d1")] \in {model_validate(data).val : data \in ReparseOutputs}
    /\ objects[parsed_key("d1")] # objects[draft_key("d1")]
    /\ objects[export_key("d1")].resume_json = objects[draft_key("d1")]
    /\ response.source_key = draft_key("d1")

\* ------------------------------------------ payloads without optional fields

\* The payload names no such field.
Omits(text, field) == ~Contains(text, field)

\* The text the backend returned to the first call of the step's pipeline.
Answered(text) ==
    /\ pipeline'.invoked /\ pipeline'.calls # << >>
    /\ pipeline'.calls[1].result = Returned(text)

\* C35: a payload with a message and a resume that leaves out needs_confirmation
\* is accepted at the first call as a proposal with needs_confirmation true: the
\* chat turn stores it as the pending edit, answers pending and writes no draft.
\* One that leaves out edits_summary is accepted with an empty edits_summary. A
\* chat turn writes the draft only on an affirmative message that finds a pending
\* edit, and then writes the validated resume of that edit.
C35_OmittedFieldsTakeDefaults ==
    [][\A d \in DocIds :
        /\ \A text \in DefaultTexts \cup {TEXT_NO_SUMMARY, TEXT_FENCED_EDIT} :
            (ChatStep(d) /\ Answered(text))
            => /\ Len(pipeline'.calls) = 1 /\ ~pipeline'.raised
               /\ Omits(text, <<"n","e","e","d","s","_","c","o","n","f","i","r","m","a","t","i","o","n">>)
                    => /\ pipeline'.proposal.needs_confirmation
                       /\ response'.status = "pending" /\ response'.needs_confirmation
                       /\ Pending(objects', d) = PendingOf(pipeline'.proposal)
                       /\ Draft(objects', d) = Draft(objects, d)
               /\ Omits(text, <<"e","d","i","t","s","_","s","u","m","m","a","r","y">>)
                    => /\ pipeline'.proposal.edits_summary = << >>
                       /\ response'.edits_summary = << >>
                       /\ pipeline'.proposal.needs_confirmation
                            => Pending(objects', d).edits_summary = << >>
        /\ (ChatStep(d) /\ Draft(objects', d) # Draft(objects, d))
            => /\ PendingActive(d) /\ is_affirmative(Strip(request'.message))
               /\ Draft(objects', d) = Validate(Resume, Pending(objects, d).resume).val]_vars

\* A payload with neither field was returned for a document without a draft: the
\* edit is pending with an empty edits_summary and there is still no draft.
C35_Witness ==
    /\ request.op = "chat" /\ pipeline.invoked /\ pipeline.calls # << >>
    /\ pipeline.calls[1].result = Returned(TEXT_NO_SUMMARY)
    /\ response.status = "pending" /\ response.needs_confirmation
    /\ Pending(objects, "d1").status = "pending"
    /\ Pending(objects, "d1").edits_summary = << >>
    /\ Pending(objects, "d1").resume = pipeline.proposal.proposed_resume
    /\ Draft(objects, "d1") = None

====
